---- MODULE Spec2Model ----
(***************************************************************************)
(* OptiMetrics: the sync state tracker (DeviceDataManager), the cloud sync *)
(* engine (CloudSyncManager) and the delta buffer (MetricsBuffer).         *)
(*                                                                         *)
(* Spec         the data manager and the cloud sync engine running as      *)
(*              threads of one process (writer, sync), with I/O failures,  *)
(*              crashes and restarts.                                      *)
(* SpecStats    Spec with a status reader calling get_stats at any moment. *)
(* SpecTracker  write_metrics, mark_uploaded and get_pending_uploads       *)
(*              called through the interface with any arguments.           *)
(* SpecBuffer   MetricsBuffer with a producer and two consumers.           *)
(***************************************************************************)
EXTENDS Integers, Sequences, FiniteSets, TLC

(***************************************************************************)
(* Bounds of the model.                                                    *)
(***************************************************************************)
MaxRows == 2
MaxWrites == 2
MaxPending == 1
IntervalTicks == 2
MaxCrashes == 1
MaxFiles == 2
MaxRemoteLen == 4
MaxErrors == 11
MaxTime == 3
MaxGpus == 2
MaxBoots == 3
MaxStarts == 2
MaxInterval == 6
MaxElapsed == 1
MaxRetained == 2
BufferSize == 2
SyncSeconds == 1
MaxLoops == 2
MaxSnapshots == 3
MaxCallRows == 2
MaxFolders == 4
MaxDeletes == 3
MaxLocalRows == 3
MaxContentLen == 4
MaxAppends == 3
MaxRestarts == 2
MaxUpdates == 7
MaxLogFiles == 3

(***************************************************************************)
(* DeviceDataManager.HARDWARE_TYPES, restricted to two of its six members; *)
(* the order is the list's order (dict insertion order of _files).         *)
(***************************************************************************)
HARDWARE_TYPES == <<"cpu", "memory">>
Types == {HARDWARE_TYPES[i] : i \in 1..Len(HARDWARE_TYPES)}

\* cloud_file_id: Optional[str] = None
NoFile == 0

VARIABLES
  disk,        \* [Types -> Nat]: data rows of the local csv that reached the file
  buffered,    \* [Types -> Nat]: rows written to the open handle, not yet flushed
  files,       \* [Types -> HardwareFile]: DeviceDataManager._files
  sync_state,  \* DeviceDataManager._sync_state (the in-memory dict)
  persisted,   \* content of sync_state.json
  dmLock,      \* holder of DeviceDataManager._lock
  writePc,     \* position of the thread inside write_metrics
  writeTodo,   \* hardware types write_metrics still has to write
  remote,      \* [Types -> Seq(file content)]: the {type}.csv files of the device folder
  driveFolder, \* the device folder exists on the drive
  service,     \* CloudSyncManager._service is set
  syncPc,      \* position of the thread inside sync()
  pending,     \* the list get_pending_uploads() returned to sync()
  result,      \* what _upload_or_append_file returned
  statsObs,    \* what the last get_stats() read for one hardware type
  crashes,     \* number of crashes so far
  sent,        \* history: the rows the remote write being recorded has sent
  redo,        \* history: the remote writes a crash left unrecorded, per type
  faulted,     \* history: a crash, a remote failure or a failed save happened
  marked,      \* history: the rows_uploaded of the last mark_uploaded call, per type
  buffer,      \* MetricsBuffer._buffer, each snapshot tagged with the number of its add()
  last_values, \* MetricsBuffer._last_values
  enable_delta,\* MetricsBuffer.enable_delta
  bufLock,     \* holder of MetricsBuffer._lock
  getPc,       \* position of each consumer thread inside get_batch
  batch,       \* the local `batch` of each consumer thread
  adds,        \* history: number of add() calls
  lastAdd,     \* history: the last add() call
  kept,        \* history: the last snapshot add() retained
  retained,    \* history: the tags of the snapshots add() returned True for
  delivered,   \* history: the tags get_batch() returned, in order
  returned,    \* history: the last list get_batch() returned
  lastOp,      \* history: the call of the buffer that completed last
  prevOp,      \* history: the call that completed before the last get_batch()
  csv_writers, \* DeviceDataManager._csv_writers / _file_handles: the open writer per type
  csv_header,  \* the header line of each type's csv file (<<>>: the file is empty)
  csv_rows,    \* the data rows appended to each type's csv file
  lastWrite,   \* history: the last write_metrics call
  writes,      \* history: number of write_metrics calls
  stateFile,   \* content of sync_state.json found by DeviceDataManager.__init__
  loaded,      \* outcome of DeviceDataManager.__init__ on stateFile
  upPc,        \* IncrementalUploader.upload_file: position of the call
  upService,   \* IncrementalUploader._service is set
  attempt,     \* upload_file: the loop variable `attempt`
  upTried,     \* history: create requests made by the current upload_file call
  upSleeps,    \* history: time.sleep(delay) calls of the current upload_file call
  upOutcome,   \* history: how the last upload_file call ended
  cyPc,        \* CloudSyncManager.sync(): position of the cycle
  cyService,   \* CloudSyncManager._service is set
  cyFolder,    \* the data manager has a device folder id
  cyLeft,      \* pending tuples the cycle still has to upload
  cyTried,     \* history: requests of each kind made for the current step of the cycle
  cyOutcome,   \* history: how the last sync() call ended
  cyCause,     \* history: the failure that made the last sync() raise
  loopKind,    \* which background loop runs: _upload_loop or sync_loop
  running,     \* the loop's flag self._running
  loopPc,      \* position of the background loop thread
  ticks,       \* one-second sleeps left of the interval
  waited,      \* history: one-second sleeps done since the last cycle
  lastFailed,  \* history: the last cycle of the loop failed
  adapter,     \* the class of the adapter object
  initialized, \* BaseHardwareAdapter._initialized
  error_count, \* BaseHardwareAdapter._error_count
  prev_io_counters, \* _prev_io_counters of the disk and network adapters is truthy
  prev_timestamp,   \* _prev_timestamp of the disk and network adapters
  prev_total_io,    \* the disk adapter has the attribute _prev_total_io
  everInitialized,  \* history: an initialize() call returned True
  lastCall,    \* history: the call of the adapter that completed last
  hid_config,  \* the hardware_id section of the config passed to generate_hardware_id
  genPrev,     \* history: the generate_hardware_id call before the last
  genLast,     \* history: the last generate_hardware_id call
  machine,     \* the hardware of the machine
  cache_file,  \* the file .hardware_id_cache
  idsReturned, \* history: the values get_cached_hardware_id returned
  boots,       \* history: number of get_cached_hardware_id calls (one per process)
  interval,    \* HardwareLogger.interval, in seconds
  cloud_sync,  \* HardwareLogger._cloud_sync is set
  logger_running, \* HardwareLogger._running
  collectors,  \* the threads started with target _collection_loop
  uploaders,   \* the threads started with target _upload_loop
  collect_thread, \* HardwareLogger._collect_thread
  starts,      \* history: number of start() calls that created threads
  stopPc,      \* position of the caller inside stop()
  joinLeft,    \* seconds left of join(timeout=5)
  buffered_count, \* number of snapshots in the logger's buffer
  retained_count, \* history: snapshots the buffer retained
  written_count,  \* history: snapshots written to the store
  lastStop,     \* history: the last stop() call
  log_dir,  \* the csv files of the log directory: present, old, state of the .csv.gz copy
  compress_old,  \* CSVWriter.compress_old
  current_file,  \* CSVWriter._current_file
  file_handle,  \* the file CSVWriter._file_handle is open on
  sweepPc,  \* position of the caller inside compress_old_files
  sweepTodo,  \* files the for loop of compress_old_files has still to visit
  sweepFile,  \* the file compress_old_files is compressing
  swept,  \* history: the files the last sweep visited
  unlinked,  \* history: the files compress_old_files deleted
  lastSweep,  \* history: how the last compress_old_files call ended
  history,  \* SessionClassifier._history
  current_category,  \* SessionClassifier._current_category
  updates,  \* history: number of update() calls
  lastUpdate,  \* history: the last update() call: what it returned, the category before it
  local_files,  \* the {hw_type}.csv files of the device directory: header, rows with their line counts
  row_totals,  \* HardwareFile.total_rows of each hardware type
  open_files,  \* the hardware types with an entry in _file_handles
  restarts,  \* history: number of restarts
  lastAppend,  \* history: total_rows before and after the last write_metrics or restart
  up_writer,  \* the entry of the hardware type in _csv_writers / _file_handles
  up_header,  \* the header line of the local file (<<>>: the file is empty)
  up_rows,  \* the data rows of the local file, each the sequence of its cells
  cloud_files,  \* the files named {hw_type}.csv of the device folder, each its lines
  up_cursor,  \* last_row_uploaded of the hardware type
  lastSync,  \* history: the last step of sync() for the type
  adapters,  \* HardwareLogger._adapters, each with the fields of BaseHardwareAdapter
  contributed,  \* the adapters with a key in the dict the last _collect_metrics() returned
  lastCycle,  \* history: the adapters the last cycle called and the ones it found unavailable
  fo_drive,  \* the folders of the device's name under the shared root on the drive
  fo_cached,  \* _sync_state["device_folder_id"]
  fo_saved,  \* device_folder_id in sync_state.json
  fo_created,  \* history: number of folders created by _ensure_device_folder
  fo_deleted,  \* history: number of folders deleted remotely
  fo_last,  \* history: the last _ensure_device_folder call
  ca_files,  \* DeviceDataManager._files: cloud_file_id, last_row_uploaded, total_rows
  ca_disk,  \* the data rows of each local file that reached the file
  ca_lines,  \* the text lines after the header of each local file, buffered ones included
  ca_write,  \* the hardware type whose row write_metrics holds in the handle's buffer
  ca_stopped,  \* no write_metrics call comes any more
  ca_remote,  \* the {type}.csv files of the device folder, per type
  ca_service,  \* CloudSyncManager._service is set
  ca_lock,  \* the holder of CloudSyncManager._lock
  ca_pc,  \* position of each caller inside sync()
  ca_pending,  \* the list get_pending_uploads() returned to each caller
  ca_result,  \* what _upload_or_append_file returned to each caller
  ca_cycle,  \* history: the current or last sync() call of each caller
  ca_prev,  \* history: how the sync() call that ended last ended
  ca_quiet,  \* history: no row was written since the last pending list was read
  ca_uploads,  \* history: the row ranges uploaded, with the caller
  fl_running,  \* HardwareLogger._running
  fl_loops,  \* position of each thread started with target _collection_loop
  fl_thread,  \* HardwareLogger._collect_thread
  fl_stop,  \* position of the caller inside stop()
  fl_buffer,  \* MetricsBuffer._buffer, each snapshot the number of its retention
  fl_batch,  \* the local `batch` of _flush_buffer in each thread
  fl_file,  \* the rows of a hardware-type file, each the number of its snapshot
  fl_retained  \* history: number of snapshots the buffer retained

dmVars == <<disk, buffered, files, sync_state, persisted, dmLock, writePc, writeTodo>>
cloudVars == <<remote, driveFolder, service, syncPc, pending, result>>
histVars == <<statsObs, crashes, sent, redo, faulted>>
trackVars == <<marked>>
bufVars == <<buffer, last_values, enable_delta, bufLock, getPc, batch,
             adds, lastAdd, kept, retained, delivered, returned, lastOp, prevOp>>
writerVars == <<csv_writers, csv_header, csv_rows, lastWrite, writes>>
\* The variables of the parts that run apart from the tracker, the sync and the buffer
loadVars == <<stateFile, loaded>>
retryVars == <<upPc, upService, attempt, upTried, upSleeps, upOutcome>>
cycleVars == <<cyPc, cyService, cyFolder, cyLeft, cyTried, cyOutcome, cyCause>>
loopVars == <<loopKind, running, loopPc, ticks, waited, lastFailed>>
adapterVars == <<adapter, initialized, error_count, prev_io_counters, prev_timestamp,
                 prev_total_io, everInitialized, lastCall>>
genVars == <<hid_config, genPrev, genLast>>
cacheVars == <<machine, cache_file, idsReturned, boots>>
apartVars == <<writerVars, loadVars, retryVars, cycleVars, loopVars, adapterVars>>
lifeVars == <<interval, cloud_sync, logger_running, collectors, uploaders, collect_thread,
              starts, stopPc, joinLeft, buffered_count, retained_count, written_count,
              lastStop>>
sweepVars == <<log_dir, compress_old, current_file, file_handle, sweepPc, sweepTodo, sweepFile, swept, unlinked, lastSweep>>
classifierVars == <<history, current_category, updates, lastUpdate>>
accountVars == <<local_files, row_totals, open_files, restarts, lastAppend>>
uploadVars == <<up_writer, up_header, up_rows, cloud_files, up_cursor, lastSync>>
collectorVars == <<adapters, contributed, lastCycle>>
folderVars == <<fo_drive, fo_cached, fo_saved, fo_created, fo_deleted, fo_last>>
callsVars == <<ca_files, ca_disk, ca_lines, ca_write, ca_stopped, ca_remote, ca_service, ca_lock, ca_pc, ca_pending, ca_result, ca_cycle, ca_prev, ca_quiet, ca_uploads>>
flushVars == <<fl_running, fl_loops, fl_thread, fl_stop, fl_buffer, fl_batch, fl_file, fl_retained>>
moreVars == <<genVars, cacheVars, lifeVars, sweepVars, classifierVars, accountVars, uploadVars, collectorVars, folderVars, callsVars, flushVars>>
restVars == <<apartVars, moreVars>>
\* What the threads of the data manager and of the cloud sync leave alone
nonSyncVars == <<trackVars, bufVars, restVars>>
vars == <<dmVars, cloudVars, histVars, trackVars, bufVars, restVars>>
\* The tracker, the sync and the buffer together
baseVars == <<dmVars, cloudVars, histVars, trackVars, bufVars>>
\* What each part that runs apart leaves alone
exceptWriter == <<baseVars, loadVars, retryVars, cycleVars, loopVars, adapterVars, moreVars>>
exceptLoad == <<baseVars, writerVars, retryVars, cycleVars, loopVars, adapterVars, moreVars>>
exceptRetry == <<baseVars, writerVars, loadVars, cycleVars, loopVars, adapterVars, moreVars>>
exceptCycleAndLoop == <<baseVars, writerVars, loadVars, retryVars, adapterVars, moreVars>>
exceptCycle == <<exceptCycleAndLoop, loopVars>>
exceptLoop == <<exceptCycleAndLoop, cycleVars>>
exceptAdapter == <<baseVars, writerVars, loadVars, retryVars, cycleVars, loopVars, moreVars>>
exceptGen == <<baseVars, apartVars, cacheVars, lifeVars, sweepVars, classifierVars, accountVars, uploadVars, collectorVars, folderVars, callsVars, flushVars>>
exceptLife == <<baseVars, apartVars, genVars, cacheVars, sweepVars, classifierVars, accountVars, uploadVars, collectorVars, folderVars, callsVars, flushVars>>
exceptSweep == <<baseVars, apartVars, genVars, cacheVars, lifeVars, classifierVars, accountVars, uploadVars, collectorVars, folderVars, callsVars, flushVars>>
exceptClassifier == <<baseVars, apartVars, genVars, cacheVars, lifeVars, sweepVars, accountVars, uploadVars, collectorVars, folderVars, callsVars, flushVars>>
exceptAccount == <<baseVars, apartVars, genVars, cacheVars, lifeVars, sweepVars, classifierVars, uploadVars, collectorVars, folderVars, callsVars, flushVars>>
exceptUpload == <<baseVars, apartVars, genVars, cacheVars, lifeVars, sweepVars, classifierVars, accountVars, collectorVars, folderVars, callsVars, flushVars>>
exceptCollector == <<baseVars, apartVars, genVars, cacheVars, lifeVars, sweepVars, classifierVars, accountVars, uploadVars, folderVars, callsVars, flushVars>>
exceptFolder == <<baseVars, apartVars, genVars, cacheVars, lifeVars, sweepVars, classifierVars, accountVars, uploadVars, collectorVars, callsVars, flushVars>>
exceptCalls == <<baseVars, apartVars, genVars, cacheVars, lifeVars, sweepVars, classifierVars, accountVars, uploadVars, collectorVars, folderVars, flushVars>>
exceptFlush == <<baseVars, apartVars, genVars, cacheVars, lifeVars, sweepVars, classifierVars, accountVars, uploadVars, collectorVars, folderVars, callsVars>>
exceptCache == <<baseVars, apartVars, genVars, lifeVars, sweepVars, classifierVars, accountVars, uploadVars, collectorVars, folderVars, callsVars, flushVars>>
(***************************************************************************)
(* Helpers.                                                                *)
(***************************************************************************)
Min(a, b) == IF a < b THEN a ELSE b
Range(s) == {s[i] : i \in 1..Len(s)}
Count(s, x) == Cardinality({i \in 1..Len(s) : s[i] = x})

\* A line of a csv file: the header line or the data row with a 0-based index.
HeaderLine == [header |-> TRUE, row |-> 0]
RowLine(i) == [header |-> FALSE, row |-> i]

\* HardwareFile (the fields the sync protocol uses)
HardwareFile(id, uploaded, total) ==
  [cloud_file_id |-> id, last_row_uploaded |-> uploaded, total_rows |-> total]

\* An entry of sync_state["files"]; an absent entry reads as the defaults.
Cursor(id, uploaded) == [cloud_file_id |-> id, last_row_uploaded |-> uploaded]
EmptySyncState ==
  [files |-> [t \in Types |-> Cursor(NoFile, 0)], device_folder_id |-> FALSE]

(***************************************************************************)
(* DeviceDataManager: pure parts.                                          *)
(***************************************************************************)
\* A startup that takes every row found on disk as uploaded
InitFilesAllUploaded(state, d) ==
  [t \in Types |-> HardwareFile(state.files[t].cloud_file_id, d[t], d[t])]

\* _init_files: total_rows is recounted from the file (lines minus the header),
\* the cursor comes from the loaded sync state.
InitFiles(state, d) ==
  [t \in Types |->
     HardwareFile(state.files[t].cloud_file_id,
                  state.files[t].last_row_uploaded,
                  d[t])]

\* A pending test that also selects a type whose rows are all uploaded
IsPendingInclusive(f, t) == f[t].total_rows >= f[t].last_row_uploaded

\* get_pending_uploads: one (hw_type, path, start_row, end_row) per type with
\* total_rows > last_row_uploaded, in the order of _files. It takes no lock.
IsPending(f, t) == f[t].total_rows > f[t].last_row_uploaded
PendingUploads(f) ==
  LET sel == SelectSeq(HARDWARE_TYPES, LAMBDA t : IsPending(f, t))
  IN [i \in 1..Len(sel) |->
        [hw_type |-> sel[i],
         start_row |-> f[sel[i]].last_row_uploaded,
         end_row |-> f[sel[i]].total_rows]]

\* A mark that moves the cursor of every type
MarkRowsEveryType(f, t, rows_uploaded) ==
  [u \in Types |-> [f[u] EXCEPT !.last_row_uploaded = rows_uploaded]]

\* mark_uploaded, first assignment: _files[hw_type].last_row_uploaded = rows_uploaded
MarkRows(f, t, rows_uploaded) ==
  [f EXCEPT ![t].last_row_uploaded = rows_uploaded]

\* mark_uploaded, second assignment: _files[hw_type].cloud_file_id = cloud_file_id
MarkFileId(f, t, cloud_file_id) ==
  [f EXCEPT ![t].cloud_file_id = cloud_file_id]

\* mark_uploaded: the entry written to _sync_state["files"][hw_type]
MarkSyncState(state, t, rows_uploaded, cloud_file_id) ==
  [state EXCEPT !.files[t] = Cursor(cloud_file_id, rows_uploaded)]

\* extract_rows_from_csv: the rows i of the file on disk with start_row <= i < end_row.
\* The file is opened anew, so rows still in the writer's buffer are not seen.
ExtractRows(d, t, start_row, end_row) ==
  LET last == Min(end_row, d[t])
      n == IF last > start_row THEN last - start_row ELSE 0
  IN [i \in 1..n |-> RowLine(start_row + i - 1)]

\* rows_to_csv_string: header line, then the rows
RowsToCsvString(rows) == <<HeaderLine>> \o rows

(***************************************************************************)
(* DeviceDataManager: write_metrics, under _lock from start to end.        *)
(*   begin   categorize, take the lock                                     *)
(*   append  writer.writerow(record); total_rows += 1                      *)
(*   flush   handle.flush(); next type, or release the lock                *)
(***************************************************************************)
\* The hardware types of S in the order write_metrics visits them.
TypesInOrder(S) == SelectSeq(HARDWARE_TYPES, LAMBDA t : t \in S)

\* Rows counted over all hardware types (the model bounds their number by MaxRows)
TotalRows(f) ==
  LET RECURSIVE Sum(_)
      Sum(k) == IF k = 0 THEN 0 ELSE f[HARDWARE_TYPES[k]].total_rows + Sum(k - 1)
  IN Sum(Len(HARDWARE_TYPES))

\* `with self._lock` of write_metrics, mark_uploaded and close
LockFree == dmLock = "free"

WriteBegin(S) ==
  /\ writePc = "idle"
  /\ LockFree
  /\ S # {}
  /\ TotalRows(files) + Cardinality(S) <= MaxRows
  /\ dmLock' = "write"
  /\ writeTodo' = TypesInOrder(S)
  /\ writePc' = "append"
  /\ UNCHANGED <<disk, buffered, files, sync_state, persisted>>
  /\ UNCHANGED <<cloudVars, histVars>>
  /\ UNCHANGED nonSyncVars

\* writer.writerow(record) goes to the handle's buffer; the counter is incremented
\* before the flush.
WriteRow ==
  /\ writePc = "append"
  /\ LET t == Head(writeTodo)
     IN /\ buffered' = [buffered EXCEPT ![t] = @ + 1]
        /\ files' = [files EXCEPT ![t].total_rows = @ + 1]
  /\ writePc' = "flush"
  /\ UNCHANGED <<disk, sync_state, persisted, dmLock, writeTodo>>
  /\ UNCHANGED <<cloudVars, histVars>>
  /\ UNCHANGED nonSyncVars

WriteFlush ==
  /\ writePc = "flush"
  /\ LET t == Head(writeTodo)
     IN /\ disk' = [disk EXCEPT ![t] = @ + buffered[t]]
        /\ buffered' = [buffered EXCEPT ![t] = 0]
  /\ writeTodo' = Tail(writeTodo)
  /\ IF Tail(writeTodo) = <<>>
       THEN writePc' = "idle" /\ dmLock' = "free"
       ELSE writePc' = "append" /\ UNCHANGED dmLock
  /\ UNCHANGED <<files, sync_state, persisted>>
  /\ UNCHANGED <<cloudVars, histVars>>
  /\ UNCHANGED nonSyncVars

\* handle.flush() raises (an OSError of the disk): the row stays in the handle's
\* buffer, the exception leaves write_metrics (the types not yet visited are not
\* written) and the lock is released; total_rows has already been incremented.
WriteFlushFail ==
  /\ writePc = "flush"
  /\ writeTodo' = <<>>
  /\ writePc' = "idle"
  /\ dmLock' = "free"
  /\ faulted' = TRUE
  /\ UNCHANGED <<disk, buffered, files, sync_state, persisted>>
  /\ UNCHANGED <<cloudVars, statsObs, crashes, sent, redo>>
  /\ UNCHANGED nonSyncVars

(***************************************************************************)
(* DeviceDataManager: saving the sync state, close(), get_stats().         *)
(***************************************************************************)
\* _save_sync_state: json.dump of the whole _sync_state; an IOError is logged and
\* swallowed, and the file keeps its content.
SaveSyncState(state, old, ok) == IF ok THEN state ELSE old

\* close(): under the lock, close the handles and save the sync state. Closing a
\* handle flushes what its buffer still holds; an exception of the close is
\* swallowed and the buffered rows are gone.
Close(flushOk, saveOk) ==
  /\ LockFree
  /\ flushOk \/ \E t \in Types : buffered[t] > 0
  /\ disk' = [t \in Types |-> IF flushOk THEN disk[t] + buffered[t] ELSE disk[t]]
  /\ buffered' = [t \in Types |-> 0]
  /\ persisted' = SaveSyncState(sync_state, persisted, saveOk)
  /\ faulted' = (faulted \/ ~saveOk \/ ~flushOk)
  /\ UNCHANGED <<files, sync_state, dmLock, writePc, writeTodo>>
  /\ UNCHANGED <<cloudVars, statsObs, crashes, sent, redo>>
  /\ UNCHANGED nonSyncVars

\* The cursors a reader may legitimately see for type t: the current one, or, while
\* mark_uploaded(t, ...) is running, the one before the call and the one after it.
ValidCursors(t) ==
  IF syncPc = "markid" /\ Head(pending).hw_type = t
    THEN {sync_state.files[t], Cursor(result.id, result.rows)}
    ELSE {Cursor(files[t].cloud_file_id, files[t].last_row_uploaded)}

\* get_stats(): reads rows_uploaded and cloud_file_id of each file; takes no lock.
GetStats(t) ==
  /\ statsObs' = [hw_type |-> t,
                  cursor |-> Cursor(files[t].cloud_file_id, files[t].last_row_uploaded),
                  valid |-> ValidCursors(t)]
  /\ UNCHANGED <<dmVars, cloudVars, crashes, sent, redo, faulted>>
  /\ UNCHANGED nonSyncVars

(***************************************************************************)
(* CloudSyncManager.sync()                                                 *)
(*   idle    -> upload   authenticate, _ensure_device_folder,              *)
(*                       get_pending_uploads                               *)
(*   upload  -> mark     _upload_or_append_file returned (file_id, end_row)*)
(*   mark    -> markid   mark_uploaded: lock taken, last_row_uploaded set  *)
(*   markid  -> upload   mark_uploaded: file id set, state saved, unlocked *)
(*   upload  -> idle     no tuple left                                     *)
(***************************************************************************)
NoResult == [id |-> NoFile, rows |-> 0]

\* sync(): `if not self._service and not self.authenticate(): return {}`
SyncAuthFail ==
  /\ syncPc = "idle"
  /\ ~service
  /\ faulted' = TRUE
  /\ UNCHANGED <<dmVars, cloudVars, statsObs, crashes, sent, redo>>
  /\ UNCHANGED nonSyncVars

\* _ensure_device_folder returns None (HttpError while listing or creating), or an
\* exception other than the ones it catches leaves sync(); the service stays set.
SyncFolderFail ==
  /\ syncPc = "idle"
  /\ service' = TRUE
  /\ faulted' = TRUE
  /\ UNCHANGED <<dmVars, remote, driveFolder, syncPc, pending, result>>
  /\ UNCHANGED <<statsObs, crashes, sent, redo>>
  /\ UNCHANGED nonSyncVars

\* Authentication and folder resolution succeed; the pending list is read.
\* A folder id not yet cached is found by name or created, then set_device_folder_id
\* stores it and saves the sync state.
SyncStart(saveOk) ==
  /\ syncPc = "idle"
  /\ service' = TRUE
  /\ IF sync_state.device_folder_id
       THEN /\ saveOk
            /\ UNCHANGED <<sync_state, persisted, driveFolder, faulted>>
       ELSE /\ driveFolder' = TRUE
            /\ sync_state' = [sync_state EXCEPT !.device_folder_id = TRUE]
            /\ persisted' = SaveSyncState(sync_state', persisted, saveOk)
            /\ faulted' = (faulted \/ ~saveOk)
  /\ pending' = PendingUploads(files)
  /\ syncPc' = "upload"
  /\ UNCHANGED <<disk, buffered, files, dmLock, writePc, writeTodo>>
  /\ UNCHANGED <<remote, result, statsObs, crashes, sent, redo>>
  /\ UNCHANGED nonSyncVars

\* _find_cloud_file: the id of a file named {hw_type}.csv in the folder (files[0] of
\* the listing, whose order the drive does not fix), None if there is none or on HttpError.
FoundFiles(t, findOk) == IF findOk THEN 1..Len(remote[t]) ELSE {}

\* Content re-uploaded to an existing file: existing content, then the new rows
\* without a header.
CombinedContent(existing, new_rows) == existing \o new_rows

RowIndexes(rows) == {rows[i].row : i \in 1..Len(rows)}

\* History: the first remote write of type t after a crash that left rows unrecorded
Redone(t, start_row, rows) ==
  IF redo[t].status = "waiting"
    THEN [redo EXCEPT ![t] = [@ EXCEPT !.status = "redone",
                                       !.upStart = start_row,
                                       !.upRows = rows]]
    ELSE redo

\* _upload_or_append_file for the first pending tuple: no row extracted.
SyncUploadNoRows ==
  /\ syncPc = "upload"
  /\ pending # <<>>
  /\ LET p == Head(pending)
     IN ExtractRows(disk, p.hw_type, p.start_row, p.end_row) = <<>>
  /\ pending' = Tail(pending)
  /\ UNCHANGED <<dmVars, remote, driveFolder, service, syncPc, result, histVars>>
  /\ UNCHANGED nonSyncVars

\* ... the file is found and downloaded, and the combined content re-uploaded.
SyncUploadAppend(fid, updateOk) ==
  /\ syncPc = "upload"
  /\ pending # <<>>
  /\ LET p == Head(pending)
         t == p.hw_type
         new_rows == ExtractRows(disk, t, p.start_row, p.end_row)
     IN /\ new_rows # <<>>
        /\ fid \in FoundFiles(t, TRUE)
        /\ Len(remote[t][fid]) + Len(new_rows) <= MaxRemoteLen
        /\ IF updateOk
             THEN /\ remote' = [remote EXCEPT
                                  ![t][fid] = CombinedContent(@, new_rows)]
                  /\ result' = [id |-> fid, rows |-> p.end_row]
                  /\ sent' = RowIndexes(new_rows)
                  /\ redo' = Redone(t, p.start_row, RowIndexes(new_rows))
                  /\ syncPc' = "mark"
                  /\ UNCHANGED <<pending, faulted>>
             ELSE /\ pending' = Tail(pending)
                  /\ faulted' = TRUE
                  /\ UNCHANGED <<remote, result, sent, redo, syncPc>>
  /\ UNCHANGED <<dmVars, driveFolder, service, statsObs, crashes>>
  /\ UNCHANGED nonSyncVars

\* ... no file is found (none exists, or the listing failed with HttpError), or the
\* download of the found file failed: a new file is created with the header and the
\* rows. files().create adds a file; it replaces none.
CreateReasons == {"absent", "find_failed", "download_failed"}
SyncUploadCreate(why, createOk) ==
  /\ syncPc = "upload"
  /\ pending # <<>>
  /\ LET p == Head(pending)
         t == p.hw_type
         new_rows == ExtractRows(disk, t, p.start_row, p.end_row)
     IN /\ new_rows # <<>>
        /\ Len(remote[t]) < MaxFiles
        /\ why = "absent" => FoundFiles(t, TRUE) = {}
        /\ why = "download_failed" => FoundFiles(t, TRUE) # {}
        /\ IF createOk
             THEN /\ remote' = [remote EXCEPT
                                  ![t] = Append(@, RowsToCsvString(new_rows))]
                  /\ result' = [id |-> Len(remote[t]) + 1, rows |-> p.end_row]
                  /\ sent' = RowIndexes(new_rows)
                  /\ redo' = Redone(t, p.start_row, RowIndexes(new_rows))
                  /\ syncPc' = "mark"
                  /\ UNCHANGED pending
             ELSE /\ pending' = Tail(pending)
                  /\ UNCHANGED <<remote, result, sent, redo, syncPc>>
        /\ faulted' = (faulted \/ why # "absent" \/ ~createOk)
  /\ UNCHANGED <<dmVars, driveFolder, service, statsObs, crashes>>
  /\ UNCHANGED nonSyncVars

\* An exception that _upload_or_append_file does not catch (not an HttpError)
\* leaves sync(); the caller's loop logs it.
SyncRaise ==
  /\ syncPc = "upload"
  /\ pending # <<>>
  /\ syncPc' = "idle"
  /\ pending' = <<>>
  /\ faulted' = TRUE
  /\ UNCHANGED <<dmVars, remote, driveFolder, service, result>>
  /\ UNCHANGED <<statsObs, crashes, sent, redo>>
  /\ UNCHANGED nonSyncVars

\* mark_uploaded(hw_type, rows_uploaded, cloud_file_id), up to line 440
MarkBegin ==
  /\ syncPc = "mark"
  /\ LockFree
  /\ dmLock' = "mark"
  /\ files' = MarkRows(files, Head(pending).hw_type, result.rows)
  /\ syncPc' = "markid"
  /\ UNCHANGED <<disk, buffered, sync_state, persisted, writePc, writeTodo>>
  /\ UNCHANGED <<remote, driveFolder, service, pending, result, histVars>>
  /\ UNCHANGED nonSyncVars

\* mark_uploaded, from line 441 to the end
MarkEnd(saveOk) ==
  /\ syncPc = "markid"
  /\ LET t == Head(pending).hw_type
     IN /\ files' = MarkFileId(files, t, result.id)
        /\ sync_state' = MarkSyncState(sync_state, t, result.rows, result.id)
  /\ persisted' = SaveSyncState(sync_state', persisted, saveOk)
  /\ dmLock' = "free"
  /\ pending' = Tail(pending)
  /\ result' = NoResult
  /\ syncPc' = "upload"
  /\ sent' = {}
  /\ faulted' = (faulted \/ ~saveOk)
  /\ UNCHANGED <<disk, buffered, writePc, writeTodo>>
  /\ UNCHANGED <<remote, driveFolder, service, statsObs, crashes, redo>>
  /\ UNCHANGED nonSyncVars

\* The loop over the pending list is over; sync() returns.
SyncEnd ==
  /\ syncPc = "upload"
  /\ pending = <<>>
  /\ syncPc' = "idle"
  /\ UNCHANGED <<dmVars, remote, driveFolder, service, pending, result, histVars>>
  /\ UNCHANGED nonSyncVars

(***************************************************************************)
(* Crash of the process and restart: DeviceDataManager.__init__ on the     *)
(* files the crash left (rows in a handle's buffer are lost), a new        *)
(* CloudSyncManager.                                                       *)
(***************************************************************************)
\* The data rows of one remote file, and of all remote files of a type
DataRows(content) == {content[i].row : i \in {j \in 1..Len(content) : ~content[j].header}}
RemoteRows(t) == UNION {DataRows(remote[t][k]) : k \in 1..Len(remote[t])}
\* Number of times row i is in the remote files of a type
RemoteCount(t, i) ==
  LET RECURSIVE Sum(_)
      Sum(k) == IF k = 0 THEN 0 ELSE Count(remote[t][k], RowLine(i)) + Sum(k - 1)
  IN Sum(Len(remote[t]))

NoRedo == [status |-> "none", start |-> 0, rows |-> {}, upStart |-> 0, upRows |-> {}]
\* Rows that are remote although the persisted cursor does not cover them
Unrecorded(t) == {i \in RemoteRows(t) : i >= persisted.files[t].last_row_uploaded}

Crash ==
  /\ crashes < MaxCrashes
  /\ crashes' = crashes + 1
  /\ buffered' = [t \in Types |-> 0]
  /\ sync_state' = persisted
  /\ files' = InitFiles(persisted, disk)
  /\ dmLock' = "free"
  /\ writePc' = "idle"
  /\ writeTodo' = <<>>
  /\ service' = FALSE
  /\ syncPc' = "idle"
  /\ pending' = <<>>
  /\ result' = NoResult
  /\ redo' = [t \in Types |->
                IF Unrecorded(t) # {}
                  THEN [status |-> "waiting",
                        start |-> persisted.files[t].last_row_uploaded,
                        rows |-> Unrecorded(t),
                        upStart |-> 0,
                        upRows |-> {}]
                  ELSE NoRedo]
  /\ sent' = {}
  /\ faulted' = TRUE
  /\ UNCHANGED <<disk, persisted, remote, driveFolder, statsObs>>
  /\ UNCHANGED nonSyncVars

(***************************************************************************)
(* The process: a fresh device directory, nothing on the drive.            *)
(***************************************************************************)
NoStats == [hw_type |-> HARDWARE_TYPES[1],
            cursor |-> Cursor(NoFile, 0),
            valid |-> {Cursor(NoFile, 0)}]

SyncInit ==
  /\ disk = [t \in Types |-> 0]
  /\ buffered = [t \in Types |-> 0]
  /\ sync_state = EmptySyncState
  /\ persisted = EmptySyncState
  /\ files = InitFiles(EmptySyncState, [t \in Types |-> 0])
  /\ dmLock = "free"
  /\ writePc = "idle"
  /\ writeTodo = <<>>
  /\ remote = [t \in Types |-> <<>>]
  /\ driveFolder = FALSE
  /\ service = FALSE
  /\ syncPc = "idle"
  /\ pending = <<>>
  /\ result = NoResult
  /\ statsObs = NoStats
  /\ crashes = 0
  /\ sent = {}
  /\ redo = [t \in Types |-> NoRedo]
  /\ faulted = FALSE

(***************************************************************************)
(* The sync state tracker called through its interface: whole calls of     *)
(* write_metrics and of mark_uploaded with any row count and file id.      *)
(***************************************************************************)
NotMarked == [set |-> FALSE, n |-> 0]

TrackInit == marked = [t \in Types |-> NotMarked]

\* write_metrics(metrics) for a snapshot with keys of the types S, no I/O failure
TrackerWrite(S) ==
  /\ S # {}
  /\ TotalRows(files) + Cardinality(S) <= MaxRows
  /\ disk' = [t \in Types |-> IF t \in S THEN disk[t] + 1 ELSE disk[t]]
  /\ files' = [t \in Types |->
                 IF t \in S THEN [files[t] EXCEPT !.total_rows = @ + 1] ELSE files[t]]
  /\ UNCHANGED <<buffered, sync_state, persisted, dmLock, writePc, writeTodo>>
  /\ UNCHANGED <<cloudVars, histVars, trackVars, bufVars, restVars>>

\* mark_uploaded(hw_type, rows_uploaded, cloud_file_id), the save succeeding
TrackerMark(t, rows_uploaded, cloud_file_id) ==
  /\ LockFree
  /\ files' = MarkFileId(MarkRows(files, t, rows_uploaded), t, cloud_file_id)
  /\ sync_state' = MarkSyncState(sync_state, t, rows_uploaded, cloud_file_id)
  /\ persisted' = SaveSyncState(sync_state', persisted, TRUE)
  /\ marked' = [marked EXCEPT ![t] = [set |-> TRUE, n |-> rows_uploaded]]
  /\ UNCHANGED <<disk, buffered, dmLock, writePc, writeTodo>>
  /\ UNCHANGED <<cloudVars, histVars, bufVars, restVars>>

(***************************************************************************)
(* MetricsBuffer (the delta buffer).                                       *)
(***************************************************************************)
MaxAdds == 3

\* logging.delta_threshold_percent, default 2.0
DeltaThreshold == 2

\* Keys of a snapshot: the timestamp and two metrics
Keys == {"timestamp", "total_utilization", "ram_percent"}
\* `if key in ["timestamp", "session_category"]: continue`
SkippedKeys == {"timestamp", "session_category"}

\* The value of a key: a number, a string, or the key is absent (None in _last_values)
Num(n) == [kind |-> "num", v |-> n]
Str == [kind |-> "str", v |-> 0]
None == [kind |-> "none", v |-> 0]
\* isinstance(value, (int, float))
IsNumeric(x) == x.kind = "num"

\* The snapshots the producer adds: an ISO timestamp string, a utilization that is
\* absent or one of four values, a memory percentage that is absent or 100.
Snapshots ==
  {m \in [Keys -> {None, Str, Num(0), Num(100), Num(101), Num(102)}] :
     /\ m["timestamp"] = Str
     /\ m["total_utilization"] \in {None, Num(0), Num(100), Num(101), Num(102)}
     /\ m["ram_percent"] \in {None, Num(100)}}

Abs(x) == IF x < 0 THEN -x ELSE x

\* A comparison that rejects a change of exactly the threshold
ChangeAboveThreshold(last_val, value) ==
  Abs(value - last_val) * 100 > DeltaThreshold * Abs(last_val)

\* abs(value - last_val) / abs(last_val) * 100 >= delta_threshold, for last_val # 0
ChangeAtLeastThreshold(last_val, value) ==
  Abs(value - last_val) * 100 >= DeltaThreshold * Abs(last_val)

\* Lines 113-121 for one numeric field
FieldSignificant(last_val, value) ==
  IF IsNumeric(last_val) /\ last_val.v # 0
    THEN ChangeAtLeastThreshold(last_val.v, value.v)
    ELSE ~IsNumeric(last_val) \/ (last_val.v = 0 /\ value.v # 0)

\* significant_change after the loop of lines 108-121
SignificantChange(lv, m) ==
  \E k \in Keys \ SkippedKeys : IsNumeric(m[k]) /\ FieldSignificant(lv[k], m[k])

\* `self.enable_delta and self._last_values`: the filter runs
FilterRuns(lv) == enable_delta /\ \E k \in Keys : lv[k] # None

\* add() returns True
Retains(lv, m) == FilterRuns(lv) => SignificantChange(lv, m)

\* Lines 127-129: every numeric field of the snapshot becomes the last value of its key
UpdateLastValues(lv, m) ==
  [k \in Keys |-> IF IsNumeric(m[k]) THEN m[k] ELSE lv[k]]

\* A buffer that compares with the last snapshot seen
LastSeenValues(lv, m, significant) == UpdateLastValues(lv, m)
\* _last_values when add() ends: a rejected snapshot returns before the update
LastRetainedValues(lv, m, significant) ==
  IF significant THEN UpdateLastValues(lv, m) ELSE lv

\* A buffer whose operations never wait for the lock
BufLockIgnored == TRUE

\* `with self._lock` of add and get_batch
BufLockFree == bufLock = "free"

\* The threads that call get_batch: the flush of the collection loop, the flush of stop()
Consumers == {"collector", "stopper"}

NoSnapshot == [set |-> FALSE, id |-> 0, m |-> [k \in Keys |-> None]]
NoAdd == [id |-> 0, m |-> [k \in Keys |-> None], result |-> FALSE,
          prev |-> NoSnapshot, before |-> <<>>,
          reference |-> [k \in Keys |-> None],
          seen |-> [k \in Keys |-> None], seen_result |-> FALSE]
Entry(id, m) == [id |-> id, m |-> m]
Ids(list) == [i \in 1..Len(list) |-> list[i].id]

\* MetricsBuffer.__init__ with logging.enable_delta_filtering = delta
BufInit(delta) ==
  /\ buffer = <<>>
  /\ last_values = [k \in Keys |-> None]
  /\ enable_delta = delta
  /\ bufLock = "free"
  /\ getPc = [c \in Consumers |-> "idle"]
  /\ batch = [c \in Consumers |-> <<>>]
  /\ adds = 0
  /\ lastAdd = NoAdd
  /\ kept = NoSnapshot
  /\ retained = <<>>
  /\ delivered = <<>>
  /\ returned = <<>>
  /\ lastOp = "none"
  /\ prevOp = "none"

\* add(metrics), under the lock from start to end
Add(m) ==
  /\ adds < MaxAdds
  /\ BufLockFree
  /\ adds' = adds + 1
  /\ LET r == Retains(last_values, m)
     IN /\ lastAdd' = [id |-> adds + 1, m |-> m, result |-> r,
                       prev |-> kept, before |-> buffer,
                       reference |-> last_values,
                       seen |-> lastAdd.m, seen_result |-> lastAdd.result]
        /\ last_values' = LastRetainedValues(last_values, m, r)
        /\ IF r
             THEN /\ buffer' = Append(buffer, Entry(adds + 1, m))
                  /\ kept' = [set |-> TRUE, id |-> adds + 1, m |-> m]
                  /\ retained' = Append(retained, adds + 1)
             ELSE UNCHANGED <<buffer, kept, retained>>
  /\ lastOp' = "add"
  /\ UNCHANGED <<enable_delta, bufLock, getPc, batch, delivered, returned, prevOp>>
  /\ UNCHANGED <<dmVars, cloudVars, histVars, trackVars, restVars>>

\* get_batch(): the lock is taken, batch = self._buffer.copy()
GetBatchCopy(c) ==
  /\ getPc[c] = "idle"
  /\ BufLockFree
  /\ bufLock' = c
  /\ batch' = [batch EXCEPT ![c] = buffer]
  /\ getPc' = [getPc EXCEPT ![c] = "copied"]
  /\ UNCHANGED <<buffer, last_values, enable_delta, adds, lastAdd, kept, retained,
                 delivered, returned, lastOp, prevOp>>
  /\ UNCHANGED <<dmVars, cloudVars, histVars, trackVars, restVars>>

\* get_batch(): self._buffer.clear(), the lock is released, batch is returned
GetBatchClear(c) ==
  /\ getPc[c] = "copied"
  /\ buffer' = <<>>
  /\ bufLock' = "free"
  /\ getPc' = [getPc EXCEPT ![c] = "idle"]
  /\ batch' = [batch EXCEPT ![c] = <<>>]
  /\ returned' = batch[c]
  /\ delivered' = delivered \o Ids(batch[c])
  /\ prevOp' = lastOp
  /\ lastOp' = "get"
  /\ UNCHANGED <<last_values, enable_delta, adds, lastAdd, kept, retained>>
  /\ UNCHANGED <<dmVars, cloudVars, histVars, trackVars, restVars>>

(***************************************************************************)
(* DeviceDataManager: the csv files. A metric key and a column name are    *)
(* the sequences of their characters, so that startswith and `in` are      *)
(* computed as Python computes them.                                       *)
(***************************************************************************)
\* The keys of `categorized` (line 309): all of DeviceDataManager.HARDWARE_TYPES
CATEGORIZED_TYPES == <<"cpu", "gpu_nvidia", "gpu_intel", "memory", "disk", "network">>
CategorizedTypes == {CATEGORIZED_TYPES[i] : i \in 1..Len(CATEGORIZED_TYPES)}

\* key.startswith(p)
StartsWith(key, p) == Len(p) <= Len(key) /\ SubSeq(key, 1, Len(p)) = p
\* p in key
Contains(key, p) ==
  \E i \in 1..(Len(key) - Len(p) + 1) : SubSeq(key, i, i + Len(p) - 1) = p
\* any(key.startswith(p) for p in ps), any(p in key for p in ps)
AnyStartsWith(key, ps) == \E i \in 1..Len(ps) : StartsWith(key, ps[i])
AnyContains(key, ps) == \E i \in 1..Len(ps) : Contains(key, ps[i])

\* cpu_keys, lines 321-325
cpu_keys ==
  << <<"c", "o", "r", "e", "_">>,
     <<"t", "o", "t", "a", "l", "_", "u", "t", "i", "l", "i", "z", "a", "t", "i", "o", "n">>,
     <<"a", "v", "g", "_", "f", "r", "e", "q">>,
     <<"f", "r", "e", "q", "_", "m", "h", "z">>,
     <<"f", "r", "e", "q", "_", "m", "i", "n">>,
     <<"f", "r", "e", "q", "_", "m", "a", "x">>,
     <<"c", "o", "n", "t", "e", "x", "t", "_", "s", "w", "i", "t", "c", "h", "e", "s">>,
     <<"i", "n", "t", "e", "r", "r", "u", "p", "t", "s">>,
     <<"s", "o", "f", "t", "_", "i", "n", "t", "e", "r", "r", "u", "p", "t", "s">>,
     <<"t", "e", "m", "p", "e", "r", "a", "t", "u", "r", "e">>,
     <<"p", "o", "w", "e", "r", "_", "w", "a", "t", "t", "s">>,
     <<"s", "y", "s", "c", "a", "l", "l", "s">>,
     <<"l", "o", "a", "d", "_", "a", "v", "g">>,
     <<"l", "o", "a", "d", "_", "1">>,
     <<"l", "o", "a", "d", "_", "5">>,
     <<"l", "o", "a", "d", "_", "1", "5">> >>

\* cpu_specific, lines 327-331
cpu_specific ==
  << <<"c", "o", "r", "e", "_", "0">>,
     <<"c", "o", "r", "e", "_", "1">>,
     <<"c", "o", "r", "e", "_", "2">>,
     <<"c", "o", "r", "e", "_", "3">>,
     <<"c", "o", "r", "e", "_", "4">>,
     <<"c", "o", "r", "e", "_", "5">>,
     <<"c", "o", "r", "e", "_", "6">>,
     <<"c", "o", "r", "e", "_", "7">>,
     <<"c", "o", "r", "e", "_", "8">>,
     <<"c", "o", "r", "e", "_", "9">>,
     <<"c", "o", "r", "e", "_", "1", "0">>,
     <<"c", "o", "r", "e", "_", "1", "1">>,
     <<"c", "o", "r", "e", "_", "1", "2">>,
     <<"c", "o", "r", "e", "_", "1", "3">>,
     <<"c", "o", "r", "e", "_", "1", "4">>,
     <<"c", "o", "r", "e", "_", "1", "5">>,
     <<"c", "o", "r", "e", "_", "1", "6">>,
     <<"c", "o", "r", "e", "_", "1", "7">>,
     <<"c", "o", "r", "e", "_", "1", "8">>,
     <<"c", "o", "r", "e", "_", "1", "9">>,
     <<"t", "o", "t", "a", "l", "_", "u", "t", "i", "l", "i", "z", "a", "t", "i", "o", "n">>,
     <<"a", "v", "g", "_", "f", "r", "e", "q">>,
     <<"c", "o", "n", "t", "e", "x", "t", "_", "s", "w", "i", "t", "c", "h", "e", "s">>,
     <<"s", "o", "f", "t", "_", "i", "n", "t", "e", "r", "r", "u", "p", "t", "s">>,
     <<"l", "o", "a", "d", "_", "a", "v", "g">>,
     <<"i", "n", "t", "e", "r", "r", "u", "p", "t", "s">> >>

\* nvidia_keys, lines 345-350
nvidia_keys ==
  << <<"u", "t", "i", "l", "i", "z", "a", "t", "i", "o", "n">>,
     <<"v", "r", "a", "m", "_">>,
     <<"t", "e", "m", "p", "e", "r", "a", "t", "u", "r", "e">>,
     <<"p", "o", "w", "e", "r", "_", "w", "a", "t", "t", "s">>,
     <<"p", "o", "w", "e", "r", "_", "l", "i", "m", "i", "t">>,
     <<"c", "o", "r", "e", "_", "c", "l", "o", "c", "k">>,
     <<"m", "e", "m", "o", "r", "y", "_", "c", "l", "o", "c", "k">>,
     <<"s", "m", "_", "c", "l", "o", "c", "k">>,
     <<"f", "a", "n", "_", "s", "p", "e", "e", "d">>,
     <<"p", "c", "i", "e", "_", "t", "x">>,
     <<"p", "c", "i", "e", "_", "r", "x">>,
     <<"e", "n", "c", "o", "d", "e", "r", "_">>,
     <<"d", "e", "c", "o", "d", "e", "r", "_">>,
     <<"c", "o", "m", "p", "u", "t", "e", "_", "p", "r", "o", "c", "e", "s", "s", "e", "s">>,
     <<"g", "r", "a", "p", "h", "i", "c", "s", "_", "p", "r", "o", "c", "e", "s", "s", "e", "s">>,
     <<"p", "e", "r", "f", "o", "r", "m", "a", "n", "c", "e", "_", "s", "t", "a", "t", "e">> >>

\* line 359: ["ram_", "swap_", "disk_", "net_"]
gpu_skipped_prefixes ==
  << <<"r", "a", "m", "_">>,
     <<"s", "w", "a", "p", "_">>,
     <<"d", "i", "s", "k", "_">>,
     <<"n", "e", "t", "_">> >>

\* "intel", lines 361 and 375
intel_key == <<"i", "n", "t", "e", "l">>

\* mem_keys, line 383
mem_keys ==
  << <<"r", "a", "m", "_">>,
     <<"s", "w", "a", "p", "_">>,
     <<"m", "e", "m", "o", "r", "y", "_">> >>

\* disk_keys, line 394
disk_keys ==
  << <<"d", "i", "s", "k", "_">>,
     <<"r", "e", "a", "d", "_", "b", "y", "t", "e", "s">>,
     <<"w", "r", "i", "t", "e", "_", "b", "y", "t", "e", "s">>,
     <<"r", "e", "a", "d", "_", "c", "o", "u", "n", "t">>,
     <<"w", "r", "i", "t", "e", "_", "c", "o", "u", "n", "t">>,
     <<"i", "o", "_">> >>

\* net_keys, line 406
net_keys ==
  << <<"n", "e", "t", "_">>,
     <<"b", "y", "t", "e", "s", "_", "s", "e", "n", "t">>,
     <<"b", "y", "t", "e", "s", "_", "r", "e", "c", "v">>,
     <<"p", "a", "c", "k", "e", "t", "s", "_">>,
     <<"e", "r", "r", "o", "r", "s", "_">>,
     <<"d", "r", "o", "p", "_">> >>

\* The columns of base_record (lines 313-316) and the column added at lines 368, 379
timestamp_col == <<"t", "i", "m", "e", "s", "t", "a", "m", "p">>
hardware_id_col == <<"h", "a", "r", "d", "w", "a", "r", "e", "_", "i", "d">>
gpu_index_col == <<"g", "p", "u", "_", "i", "n", "d", "e", "x">>
\* The prefixes of f"cpu_{key}" (line 337) and f"gpu_{key}" (line 365)
cpu_prefix == <<"c", "p", "u", "_">>
gpu_prefix == <<"g", "p", "u", "_">>

\* The metric keys of the model, all lower case, in the order the adapters emit them:
\* total_utilization, ram_percent, ram_used_gb,
\* net_bytes_sent, net_intel_is_up (net_{safe_name}_is_up of an interface named intel)
MetricNames ==
  << <<"t", "o", "t", "a", "l", "_", "u", "t", "i", "l", "i", "z", "a", "t", "i", "o", "n">>,
     <<"r", "a", "m", "_", "p", "e", "r", "c", "e", "n", "t">>,
     <<"r", "a", "m", "_", "u", "s", "e", "d", "_", "g", "b">>,
     <<"n", "e", "t", "_", "b", "y", "t", "e", "s", "_", "s", "e", "n", "t">>,
     <<"n", "e", "t", "_", "i", "n", "t", "e", "l", "_", "i", "s", "_", "u", "p">> >>

\* The snapshots of the model: at most two of the metric keys (a set; its dict order is
\* the order of MetricNames)
MetricKeySets ==
  {m \in SUBSET Range(MetricNames) : \E a, b \in Range(MetricNames) : m \subseteq {a, b}}
\* metrics.items(), the keys in dict order
KeysOf(m) == SelectSeq(MetricNames, LAMBDA k : k \in m)

\* _categorize_metrics: the test each loop applies to a key
InCpu(key) == AnyStartsWith(key, cpu_keys)
InGpuNvidia(key) ==
  /\ ~AnyContains(key, cpu_specific)
  /\ ~AnyStartsWith(key, gpu_skipped_prefixes)
  /\ ~Contains(key, intel_key)
  /\ AnyContains(key, nvidia_keys)
InGpuIntel(key) == Contains(key, intel_key)
InMemory(key) == AnyStartsWith(key, mem_keys)
InDisk(key) ==
  /\ AnyStartsWith(key, disk_keys) \/ AnyContains(key, disk_keys)
  /\ ~AnyStartsWith(key, mem_keys)
InNetwork(key) == AnyStartsWith(key, net_keys) \/ AnyContains(key, net_keys)

Matches(t, key) ==
  CASE t = "cpu" -> InCpu(key)
    [] t = "gpu_nvidia" -> InGpuNvidia(key)
    [] t = "gpu_intel" -> InGpuIntel(key)
    [] t = "memory" -> InMemory(key)
    [] t = "disk" -> InDisk(key)
    [] t = "network" -> InNetwork(key)

\* The column a key gets in the record of a type
ColumnOf(t, key) ==
  CASE t = "cpu" -> cpu_prefix \o key
    [] t = "gpu_nvidia" -> gpu_prefix \o key
    [] OTHER -> key

\* _categorize_metrics: the columns of the record of type t, in dict order; <<>> when the
\* type has no data and categorized[t] stays empty
RecordColumns(t, m) ==
  LET keys == SelectSeq(KeysOf(m), LAMBDA k : Matches(t, k))
      cols == [i \in 1..Len(keys) |-> ColumnOf(t, keys[i])]
      index == IF t \in {"gpu_nvidia", "gpu_intel"} THEN <<gpu_index_col>> ELSE <<>>
  IN IF keys = <<>> THEN <<>> ELSE <<timestamp_col, hardware_id_col>> \o cols \o index

CategorizeMetrics(m) == [t \in CategorizedTypes |-> RecordColumns(t, m)]

\* No entry in _csv_writers / _file_handles
NoWriter == [open |-> FALSE, fieldnames |-> <<>>]

\* Lines 241-244: the header read from the file, then the record's columns it lacks
MergeColumns(existing_headers, record_columns) ==
  existing_headers \o SelectSeq(record_columns, LAMBDA c : c \notin Range(existing_headers))

\* _get_writer(hw_type, record): the writer it returns and the header line of the file
\* afterwards. An open writer is returned as it is, with or without new columns in the
\* record (lines 218-226); otherwise a writer is made from the file's header merged with
\* the record's columns, and the header is written only to an empty file.
GetWriter(writer, header, record_columns) ==
  IF writer.open
    THEN [writer |-> writer, header |-> header]
    ELSE LET file_exists == header # <<>>
             fieldnames == IF file_exists
                             THEN MergeColumns(header, record_columns)
                             ELSE record_columns
         IN [writer |-> [open |-> TRUE, fieldnames |-> fieldnames],
             header |-> IF file_exists THEN header ELSE fieldnames]

\* DictWriter.writerow with extrasaction="ignore": one cell per fieldname, the record's
\* other columns dropped
WrittenRow(fieldnames, record_columns) ==
  [cells |-> Len(fieldnames),
   record |-> Range(record_columns),
   written |-> Range(record_columns) \cap Range(fieldnames)]

\* The types write_metrics visits: those with a record, in the order of `categorized`
TypesWithRecord(m) ==
  SelectSeq(CATEGORIZED_TYPES, LAMBDA t : RecordColumns(t, m) # <<>>)
\* Position of a type in a list (0 when absent)
IndexOf(list, t) ==
  IF \E i \in 1..Len(list) : list[i] = t
    THEN CHOOSE i \in 1..Len(list) : list[i] = t
    ELSE 0

NoFailure == "none"
NoWrite == [m |-> {}, failed |-> NoFailure, raised |-> FALSE, rows_written |-> {},
            before |-> [t \in CategorizedTypes |-> 0]]

WriterInit ==
  /\ csv_writers = [t \in CategorizedTypes |-> NoWriter]
  /\ csv_header = [t \in CategorizedTypes |-> <<>>]
  /\ csv_rows = [t \in CategorizedTypes |-> <<>>]
  /\ lastWrite = NoWrite
  /\ writes = 0

\* write_metrics(metrics), whole call under _lock. failed is the hardware type whose
\* append raises OSError (NoFailure: none does): the exception is not caught, so the
\* types after it in the loop are not visited and nothing is returned.
WriteMetrics(m, failed) ==
  LET todo == TypesWithRecord(m)
      stop == IndexOf(todo, failed)
      done == IF stop = 0 THEN Range(todo) ELSE {todo[i] : i \in 1..(stop - 1)}
      got == [t \in CategorizedTypes |->
                GetWriter(csv_writers[t], csv_header[t], RecordColumns(t, m))]
  IN /\ writes < MaxWrites
     /\ failed = NoFailure \/ stop > 0
     /\ writes' = writes + 1
     /\ csv_writers' = [t \in CategorizedTypes |->
                          IF t \in done THEN got[t].writer ELSE csv_writers[t]]
     /\ csv_header' = [t \in CategorizedTypes |->
                         IF t \in done THEN got[t].header ELSE csv_header[t]]
     /\ csv_rows' = [t \in CategorizedTypes |->
                       IF t \in done
                         THEN Append(csv_rows[t],
                                     WrittenRow(got[t].writer.fieldnames,
                                                RecordColumns(t, m)))
                         ELSE csv_rows[t]]
     /\ lastWrite' = [m |-> m, failed |-> failed, raised |-> stop > 0,
                      rows_written |-> IF stop > 0 THEN {} ELSE done,
                      before |-> [t \in CategorizedTypes |-> Len(csv_rows[t])]]
     /\ UNCHANGED exceptWriter

\* close() and a new DeviceDataManager on the same directory: the files stay, the
\* writers are gone
WriterRestart ==
  /\ \E t \in CategorizedTypes : csv_writers[t].open
  /\ csv_writers' = [t \in CategorizedTypes |-> NoWriter]
  /\ UNCHANGED <<csv_header, csv_rows, lastWrite, writes>>
  /\ UNCHANGED exceptWriter

(***************************************************************************)
(* DeviceDataManager.__init__ on any content of sync_state.json. A JSON    *)
(* value is a record with its kind; a dict carries the keys the code reads, *)
(* each with its value or Missing.                                         *)
(***************************************************************************)
Missing == [kind |-> "missing"]
JsonNull == [kind |-> "null"]
JsonList == [kind |-> "list"]
JsonNumber(n) == [kind |-> "number", v |-> n]
JsonString(id) == [kind |-> "string", v |-> id]
IsDict(v) == v.kind = "dict"

\* The values "files"[hw_type] can have: absent, a number, or a dict
FileEntries ==
  {Missing, JsonNumber(1)} \cup
  [kind : {"dict"},
   cloud_file_id : {Missing, JsonNull, JsonString(1)},
   last_row_uploaded : {Missing, JsonNumber(0), JsonNumber(1), JsonString(1)}]
\* The values "files" can have
FilesValues ==
  {Missing, JsonNull, JsonList} \cup
  {[kind |-> "dict", entries |-> e] : e \in [Types -> FileEntries]}
\* The JSON documents of the model
JsonDocuments ==
  {JsonNull, JsonList, JsonNumber(1)} \cup
  [kind : {"dict"}, files : FilesValues,
   device_folder_id : {Missing, JsonNull, JsonString(1)}]
\* What __init__ can find at sync_state.json: no file, a file whose open or read fails
\* with IOError, bytes that are not UTF-8, text that is not JSON, or a JSON document
StateFileContents ==
  {[kind |-> "absent"], [kind |-> "io_error"], [kind |-> "not_utf8"],
   [kind |-> "not_json"]} \cup
  {[kind |-> "json", value |-> v] : v \in JsonDocuments}

\* d.get(key, default), given the value stored under the key or Missing
Get(stored, default) == IF stored = Missing THEN default ELSE stored

\* The dict of lines 145-149
DefaultSyncState ==
  [kind |-> "dict",
   files |-> [kind |-> "dict", entries |-> [t \in Types |-> Missing]],
   device_folder_id |-> JsonNull]

\* _load_sync_state: json.load's result whatever its type; the default dict when the
\* file is absent or raises JSONDecodeError or IOError; any other exception
\* (UnicodeDecodeError) is not caught
LoadSyncState(content) ==
  CASE content.kind = "json" -> [raised |-> FALSE, state |-> content.value]
    [] content.kind = "not_utf8" -> [raised |-> TRUE, state |-> Missing]
    [] OTHER -> [raised |-> FALSE, state |-> DefaultSyncState]

\* Lines 198-206 for one type: .get on a value that is no dict raises AttributeError
InitFileFrom(state, t, row_count) ==
  IF ~IsDict(state) THEN [raised |-> TRUE]
  ELSE LET files_value == Get(state.files, [kind |-> "dict",
                                             entries |-> [u \in Types |-> Missing]])
       IN IF ~IsDict(files_value) THEN [raised |-> TRUE]
          ELSE LET file_state == Get(files_value.entries[t],
                                     [kind |-> "dict", cloud_file_id |-> Missing,
                                      last_row_uploaded |-> Missing])
               IN IF ~IsDict(file_state) THEN [raised |-> TRUE]
                  ELSE [raised |-> FALSE,
                        cloud_file_id |-> Get(file_state.cloud_file_id, JsonNull),
                        last_row_uploaded |->
                          Get(file_state.last_row_uploaded, JsonNumber(0)),
                        total_rows |-> row_count]

\* get_device_folder_id on the loaded state
DeviceFolderId(state) == Get(state.device_folder_id, JsonNull)

NotConstructed == [done |-> FALSE, raised |-> FALSE]

LoadInit ==
  /\ stateFile = [kind |-> "absent"]
  /\ loaded = NotConstructed

\* DeviceDataManager(hardware_id, base_dir) on a directory holding stateFile
Construct ==
  LET load == LoadSyncState(stateFile)
      made == [t \in Types |-> InitFileFrom(load.state, t, disk[t])]
  IN /\ ~loaded.done
     /\ loaded' =
          IF load.raised \/ \E t \in Types : made[t].raised
            THEN [done |-> TRUE, raised |-> TRUE]
            ELSE [done |-> TRUE, raised |-> FALSE, files |-> made,
                  device_folder_id |-> DeviceFolderId(load.state)]
     /\ UNCHANGED stateFile
     /\ UNCHANGED exceptLoad

(***************************************************************************)
(* IncrementalUploader.upload_file (gdrive_uploader.py): the retry loop.   *)
(***************************************************************************)
\* config "retry_attempts", default 3
retry_attempts == 3

\* A loop that always tries again
RetryAlways(a) == TRUE

\* Line 340: `attempt < retry_attempts - 1`, another attempt follows the failed one
RetryFollows(a) == a < retry_attempts - 1

RetryInit ==
  /\ upPc = "idle"
  /\ upService = FALSE
  /\ attempt = 0
  /\ upTried = 0
  /\ upSleeps = 0
  /\ upOutcome = "none"

\* Lines 266-268 with no service: authenticate() returns False and upload_file returns
\* None, or authenticate() raises (lines 170-189 are outside any try) and so does
\* upload_file.
UploadAuthFail(raises) ==
  /\ upPc = "idle"
  /\ ~upService
  /\ upOutcome' = IF raises THEN "raised" ELSE "None"
  /\ upTried' = 0
  /\ upSleeps' = 0
  /\ UNCHANGED <<upPc, upService, attempt>>
  /\ UNCHANGED exceptRetry

\* Lines 266-308: the service is there or authenticate() succeeds; the loop starts
UploadBegin ==
  /\ upPc = "idle"
  /\ upService' = TRUE
  /\ upPc' = "attempt"
  /\ attempt' = 0
  /\ upTried' = 0
  /\ upSleeps' = 0
  /\ upOutcome' = "none"
  /\ UNCHANGED exceptRetry

\* Lines 310-337: files().create succeeds, the file id is returned
UploadAttemptOk ==
  /\ upPc = "attempt"
  /\ upTried' = upTried + 1
  /\ upOutcome' = "file_id"
  /\ upPc' = "idle"
  /\ UNCHANGED <<upService, attempt, upSleeps>>
  /\ UNCHANGED exceptRetry

\* Lines 339-345: files().create raises HttpError; either time.sleep(delay) starts, or
\* the error is raised again, caught at line 347, and None is returned
UploadAttemptHttpError ==
  /\ upPc = "attempt"
  /\ upTried' = upTried + 1
  /\ IF RetryFollows(attempt)
       THEN /\ upPc' = "sleep"
            /\ upSleeps' = upSleeps + 1
            /\ UNCHANGED upOutcome
       ELSE /\ upPc' = "idle"
            /\ upOutcome' = "None"
            /\ UNCHANGED upSleeps
  /\ UNCHANGED <<upService, attempt>>
  /\ UNCHANGED exceptRetry

\* time.sleep(delay) returns; the next iteration of the loop
UploadSleepEnd ==
  /\ upPc = "sleep"
  /\ attempt' = attempt + 1
  /\ upPc' = "attempt"
  /\ UNCHANGED <<upService, upTried, upSleeps, upOutcome>>
  /\ UNCHANGED exceptRetry

\* Lines 347-352: files().create raises another exception; None is returned at once
UploadAttemptError ==
  /\ upPc = "attempt"
  /\ upTried' = upTried + 1
  /\ upOutcome' = "None"
  /\ upPc' = "idle"
  /\ UNCHANGED <<upService, attempt, upSleeps>>
  /\ UNCHANGED exceptRetry

(***************************************************************************)
(* CloudSyncManager.sync(): what each request of a cycle does on failure.  *)
(* A request ends "ok", with HttpError 404 ("http_404"), with another      *)
(* HttpError ("http_error") or with any other exception ("exception").     *)
(***************************************************************************)
Requests == {"authenticate", "verify_folder", "find_folder", "find_file",
             "download", "update", "create"}
RequestOutcomes == {"ok", "http_404", "http_error", "exception"}
IsHttpError(out) == out \in {"http_404", "http_error"}
NoneTried == [r \in Requests |-> 0]
\* No request made sync() raise
NoCause == <<"none", "ok">>

CycleInit ==
  /\ cyPc = "idle"
  /\ cyService = FALSE
  /\ cyFolder = FALSE
  /\ cyLeft = 0
  /\ cyTried = NoneTried
  /\ cyOutcome = "none"
  /\ cyCause = NoCause

\* The request r is made and the cycle goes on at pc
CycleGoesOn(r, pc) ==
  /\ cyTried' = [cyTried EXCEPT ![r] = @ + 1]
  /\ cyPc' = pc
  /\ UNCHANGED <<cyOutcome, cyCause>>
\* The request r is made and sync() returns {} or `synced`
CycleReturns(r, value) ==
  /\ cyTried' = [cyTried EXCEPT ![r] = @ + 1]
  /\ cyPc' = "idle"
  /\ cyOutcome' = value
  /\ UNCHANGED cyCause
\* The request r is made and its exception leaves sync()
CycleRaises(r, out) ==
  /\ cyTried' = [cyTried EXCEPT ![r] = @ + 1]
  /\ cyPc' = "idle"
  /\ cyOutcome' = "raised"
  /\ cyCause' = <<r, out>>

\* sync() is entered; n tuples will be pending
CycleEntered(n) ==
  /\ cyPc = "idle"
  /\ cyPc' = IF cyService THEN "folder" ELSE "auth"
  /\ cyLeft' = n
  /\ cyTried' = NoneTried
  /\ cyOutcome' = "none"
  /\ cyCause' = NoCause
  /\ UNCHANGED <<cyService, cyFolder>>

\* sync() is called by any caller
CycleBegin(n) ==
  /\ CycleEntered(n)
  /\ UNCHANGED exceptCycle

\* Line 321: authenticate() catches every exception and returns False
CycleAuthenticate(ok) ==
  /\ cyPc = "auth"
  /\ cyService' = ok
  /\ IF ok THEN CycleGoesOn("authenticate", "folder")
           ELSE CycleReturns("authenticate", "empty")
  /\ UNCHANGED <<cyFolder, cyLeft>>
  /\ UNCHANGED exceptCycle

\* _ensure_device_folder, lines 130-140: the stored folder id is verified; HttpError
\* 404 leads to the search by name, any other HttpError is raised again
CycleVerifyFolder(out) ==
  /\ cyPc = "folder"
  /\ cyFolder
  /\ CASE out = "ok" -> CycleGoesOn("verify_folder", "tuples")
       [] out = "http_404" -> CycleGoesOn("verify_folder", "lookup")
       [] OTHER -> CycleRaises("verify_folder", out)
  /\ UNCHANGED <<cyService, cyFolder, cyLeft>>
  /\ UNCHANGED exceptCycle

\* _ensure_device_folder, lines 142-180: the folder is found by name or created, and
\* its id stored; an HttpError makes sync() return {}
CycleFindFolder(out) ==
  /\ cyPc = "lookup" \/ (cyPc = "folder" /\ ~cyFolder)
  /\ CASE out = "ok" -> CycleGoesOn("find_folder", "tuples")
       [] IsHttpError(out) -> CycleReturns("find_folder", "empty")
       [] OTHER -> CycleRaises("find_folder", out)
  /\ cyFolder' = (cyFolder \/ out = "ok")
  /\ UNCHANGED <<cyService, cyLeft>>
  /\ UNCHANGED exceptCycle

\* Lines 337-351: the next pending tuple, or the end of the cycle
CycleNextTuple ==
  /\ cyPc = "tuples"
  /\ IF cyLeft = 0
       THEN /\ cyPc' = "idle"
            /\ cyOutcome' = "synced"
            /\ UNCHANGED <<cyTried, cyCause>>
       ELSE /\ cyPc' = "find"
            /\ cyTried' = NoneTried
            /\ UNCHANGED <<cyOutcome, cyCause>>
  /\ UNCHANGED <<cyService, cyFolder, cyLeft>>
  /\ UNCHANGED exceptCycle

\* _find_cloud_file: an HttpError counts as no file found
CycleFindFile(out, found) ==
  /\ cyPc = "find"
  /\ CASE out = "ok" -> CycleGoesOn("find_file", IF found THEN "download" ELSE "create")
       [] IsHttpError(out) -> CycleGoesOn("find_file", "create")
       [] OTHER -> CycleRaises("find_file", out)
  /\ UNCHANGED <<cyService, cyFolder, cyLeft>>
  /\ UNCHANGED exceptCycle

\* _download_existing_file: an HttpError makes the step create a new file
CycleDownload(out) ==
  /\ cyPc = "download"
  /\ CASE out = "ok" -> CycleGoesOn("download", "update")
       [] IsHttpError(out) -> CycleGoesOn("download", "create")
       [] OTHER -> CycleRaises("download", out)
  /\ UNCHANGED <<cyService, cyFolder, cyLeft>>
  /\ UNCHANGED exceptCycle

\* Lines 265-277 (files().update) and 297-310 (files().create): an HttpError makes the
\* step return None and sync() go on with the next tuple
CycleWrite(r, out) ==
  /\ r \in {"update", "create"}
  /\ cyPc = r
  /\ IF out = "exception"
       THEN CycleRaises(r, out) /\ UNCHANGED cyLeft
       ELSE CycleGoesOn(r, "tuples") /\ cyLeft' = cyLeft - 1
  /\ UNCHANGED <<cyService, cyFolder>>
  /\ UNCHANGED exceptCycle

(***************************************************************************)
(* The background sync loops: HardwareLogger._upload_loop and sync_loop of  *)
(* CloudSyncManager.start_background_sync. Both wait interval_minutes * 60  *)
(* sleeps of one second between two cycles.                                *)
(***************************************************************************)
LoopKinds == {"upload_loop", "sync_loop"}

\* `except Exception` around self.sync(): an exception raised inside sync() is caught
CaughtNothing(outcome) == outcome # "raised"

CaughtByLoop(outcome) == outcome \in {"raised", "empty", "synced"}

\* sync() returned {} (authentication or folder failure) or raised
CycleFailed(outcome) == outcome \in {"raised", "empty"}

\* The thread is started with the flag set. _upload_loop tests the flag before its
\* first cycle, sync_loop makes its initial sync before it tests anything.
LoopInit ==
  /\ loopKind = "sync_loop"
  /\ running = TRUE
  /\ loopPc = "initial"
  /\ ticks = 0
  /\ waited = 0
  /\ lastFailed = FALSE

\* self.sync() is called: the initial sync of sync_loop, or `while self._running` held
LoopCallSync(n) ==
  /\ \/ loopPc = "initial" /\ loopKind = "sync_loop"
     \/ loopPc \in {"initial", "call"} /\ loopKind = "upload_loop" /\ running
     \/ loopPc = "call" /\ loopKind = "sync_loop" /\ running
  /\ CycleEntered(n)
  /\ loopPc' = "in_sync"
  /\ UNCHANGED <<loopKind, running, ticks, waited, lastFailed>>
  /\ UNCHANGED exceptCycleAndLoop

\* sync() returned or raised; what the loop catches is logged and the wait begins
LoopSyncOver ==
  /\ loopPc = "in_sync"
  /\ cyPc = "idle"
  /\ loopPc' = IF CaughtByLoop(cyOutcome) THEN "wait" ELSE "ended"
  /\ ticks' = IntervalTicks
  /\ waited' = 0
  /\ lastFailed' = CycleFailed(cyOutcome)
  /\ UNCHANGED <<loopKind, running>>
  /\ UNCHANGED exceptLoop

\* One pass of `for _ in range(interval_minutes * 60)` with the flag set: time.sleep(1)
LoopTick ==
  /\ loopPc = "wait"
  /\ ticks > 0
  /\ running
  /\ ticks' = ticks - 1
  /\ waited' = waited + 1
  /\ UNCHANGED <<loopKind, running, loopPc, lastFailed>>
  /\ UNCHANGED exceptLoop

\* The for loop is over: back to the test of the flag
LoopWaitOver ==
  /\ loopPc = "wait"
  /\ ticks = 0
  /\ loopPc' = "call"
  /\ UNCHANGED <<loopKind, running, ticks, waited, lastFailed>>
  /\ UNCHANGED exceptLoop

\* The loop sees the flag cleared (`if not self._running: return / break`, or the
\* while test) and the thread ends
LoopSeesStop ==
  /\ ~running
  /\ \/ loopPc = "wait" /\ ticks > 0
     \/ loopPc = "call"
     \/ loopPc = "initial" /\ loopKind = "upload_loop"
  /\ loopPc' = "ended"
  /\ UNCHANGED <<loopKind, running, ticks, waited, lastFailed>>
  /\ UNCHANGED exceptLoop

\* stop() / stop_background_sync() on another thread clears the flag
LoopStop ==
  /\ running
  /\ running' = FALSE
  /\ UNCHANGED <<loopKind, loopPc, ticks, waited, lastFailed>>
  /\ UNCHANGED exceptLoop

(***************************************************************************)
(* The hardware adapters (BaseHardwareAdapter and its six subclasses).     *)
(* One adapter object, called through its interface in any order. What the *)
(* platform answers (a library call raising, counters missing, the clock)  *)
(* is drawn at each call. A timestamp is a tick of time.time(), which may  *)
(* step backwards; a counters value is kept as its truth value.            *)
(***************************************************************************)
AdapterClasses == {"CPUAdapter", "DiskAdapter", "MemoryAdapter", "NetworkAdapter",
                   "IntelGPUAdapter", "NvidiaGPUAdapter"}

\* The adapters whose initialize() returns False without an error when the library
\* or the device is absent
GpuAdapters == {"IntelGPUAdapter", "NvidiaGPUAdapter"}

\* The adapters that compute rates from _prev_io_counters and _prev_timestamp
RateAdapters == {"DiskAdapter", "NetworkAdapter"}

\* The values time.time() returns
Times == 1..MaxTime

\* self._max_errors
max_errors == 10

\* self._prev_timestamp = None
NoTimestamp == 0

\* is_available with `<=` in the place of `<`
AtMostMaxErrors(count) == count <= max_errors

\* self._error_count < self._max_errors
BelowMaxErrors(count) == count < max_errors

is_available(is_initialized, count) == is_initialized /\ BelowMaxErrors(count)

record_error(count) == count + 1

reset_error_count == 0

\* cleanup() with no except clause around the library call
CleanupCatchesNothing(outcome) == outcome = "ok"

\* `except Exception: pass` around CoUninitialize() and nvmlShutdown()
CleanupCatches(outcome) == outcome \in {"ok", "exception"}

\* `if time_delta >= 0` in the place of `if time_delta > 0`
ElapsedNotNegative(time_delta) == time_delta >= 0

\* `if time_delta > 0:` before the rates are computed
ElapsedPositive(time_delta) == time_delta > 0

\* History: no rate computation in a call
NoRates == [compared |-> FALSE, time_delta |-> 0, divided |-> FALSE, emitted |-> FALSE]

\* History: a completed call of the adapter
Call(op, value, raised, rates) ==
  [op |-> op, after |-> lastCall.op, returned |-> value, raised |-> raised,
   was_initialized |-> initialized, never_initialized |-> ~everInitialized,
   errors_before |-> error_count, rates |-> rates]

AdapterInit ==
  /\ adapter = "CPUAdapter"
  /\ initialized = FALSE
  /\ error_count = 0
  /\ prev_io_counters = FALSE
  /\ prev_timestamp = NoTimestamp
  /\ prev_total_io = FALSE
  /\ everInitialized = FALSE
  /\ lastCall = [op |-> "__init__", after |-> "none", returned |-> "none",
                 raised |-> FALSE, was_initialized |-> FALSE,
                 never_initialized |-> TRUE, errors_before |-> 0, rates |-> NoRates]

\* What initialize() can meet
InitializeOutcomes(class) ==
  IF class \in GpuAdapters THEN {"ok", "absent", "exception"} ELSE {"ok", "exception"}

\* initialize(): _initialized is set on success and left alone otherwise; an
\* exception is recorded as an error. The disk and network adapters store the
\* counters and the time for the first rate.
Initialize(outcome, now, counters) ==
  /\ outcome \in InitializeOutcomes(adapter)
  /\ outcome = "exception" => error_count < MaxErrors
  /\ initialized' = (initialized \/ outcome = "ok")
  /\ error_count' = IF outcome = "exception" THEN record_error(error_count) ELSE error_count
  /\ IF adapter \in RateAdapters /\ outcome = "ok"
       THEN /\ prev_io_counters' = counters
            /\ prev_timestamp' = now
       ELSE UNCHANGED <<prev_io_counters, prev_timestamp>>
  /\ everInitialized' = (everInitialized \/ outcome = "ok")
  /\ lastCall' = Call("initialize", IF outcome = "ok" THEN "true" ELSE "false", FALSE, NoRates)
  /\ UNCHANGED <<adapter, prev_total_io>>
  /\ UNCHANGED exceptAdapter

\* record_error(message) called on the adapter
RecordError ==
  /\ error_count < MaxErrors
  /\ error_count' = record_error(error_count)
  /\ lastCall' = Call("record_error", "none", FALSE, NoRates)
  /\ UNCHANGED <<adapter, initialized, prev_io_counters, prev_timestamp, prev_total_io,
                 everInitialized>>
  /\ UNCHANGED exceptAdapter

\* reset_error_count() called on the adapter
ResetErrorCount ==
  /\ error_count' = reset_error_count
  /\ lastCall' = Call("reset_error_count", "none", FALSE, NoRates)
  /\ UNCHANGED <<adapter, initialized, prev_io_counters, prev_timestamp, prev_total_io,
                 everInitialized>>
  /\ UNCHANGED exceptAdapter

\* Whether cleanup() calls into the library: CoUninitialize() where WMI was imported,
\* nvmlShutdown() when pynvml was imported and the adapter is initialized
Releases(class, library) ==
  \/ class = "CPUAdapter" /\ library
  \/ class = "NvidiaGPUAdapter" /\ library /\ initialized

\* cleanup(): the library call, with what it raises swallowed, then the fields reset
Cleanup(library, outcome) ==
  /\ outcome \in {"ok", "exception"}
  /\ outcome = "exception" => Releases(adapter, library)
  /\ IF CleanupCatches(outcome)
       THEN /\ initialized' = FALSE
            /\ IF adapter \in RateAdapters
                 THEN /\ prev_io_counters' = FALSE
                      /\ prev_timestamp' = NoTimestamp
                 ELSE UNCHANGED <<prev_io_counters, prev_timestamp>>
            /\ lastCall' = Call("cleanup", "none", FALSE, NoRates)
       ELSE /\ UNCHANGED <<initialized, prev_io_counters, prev_timestamp>>
            /\ lastCall' = Call("cleanup", "none", TRUE, NoRates)
  /\ UNCHANGED <<adapter, error_count, prev_total_io, everInitialized>>
  /\ UNCHANGED exceptAdapter

\* The rates block of one collect_metrics() call of the disk or network adapter:
\* io         the total counters were read and are truthy
\* has_total  what the disk adapter asks further (prev_total and _prev_total_io)
\* A division by a zero time_delta raises ZeroDivisionError.
RatesBlock(now, io, has_total) ==
  LET compared == io /\ prev_io_counters /\ prev_timestamp # NoTimestamp
      time_delta == IF compared THEN now - prev_timestamp ELSE 0
      divided == compared /\ ElapsedPositive(time_delta) /\ has_total
  IN [compared |-> compared, time_delta |-> time_delta, divided |-> divided,
      emitted |-> divided /\ time_delta # 0]

ZeroDivision(rates) == rates.divided /\ rates.time_delta = 0

\* What collect_metrics() can meet: no exception, an exception before the total
\* counters are read, an exception after the rates block
CollectOutcomes == {"ok", "exception_before", "exception_after"}

\* collect_metrics() of the GPU adapters returns at once when not initialized
ReturnsAtOnce == adapter \in GpuAdapters /\ ~initialized

\* NetworkAdapter.collect_metrics(): the block stores the counters and the time
\* itself, so a later exception leaves them stored.
\*   some  the metrics dict holds a key when the call returns
CollectNetwork(now, outcome, io, some) ==
  LET reads == outcome # "exception_before" /\ io
      rates == RatesBlock(now, reads, TRUE)
      failed == outcome # "ok" \/ ZeroDivision(rates)
      stored == reads /\ ~ZeroDivision(rates)
  IN /\ adapter = "NetworkAdapter"
     /\ failed => error_count < MaxErrors
     /\ prev_io_counters' = IF stored THEN TRUE ELSE prev_io_counters
     /\ prev_timestamp' = IF stored THEN now ELSE prev_timestamp
     /\ error_count' = IF failed THEN record_error(error_count) ELSE reset_error_count
     /\ lastCall' = Call("collect_metrics",
                         IF reads \/ some THEN "metrics" ELSE "empty", FALSE, rates)
     /\ UNCHANGED <<adapter, initialized, prev_total_io, everInitialized>>
     /\ UNCHANGED exceptAdapter

\* DiskAdapter.collect_metrics(): the block keeps the total counters in
\* _prev_total_io; the per-disk counters and the time are stored at the end of a
\* call that met no exception.
\*   again     the second read of the total counters (prev_total) is truthy
\*   per_disk  the per-disk counters are truthy
CollectDisk(now, outcome, io, again, per_disk, some) ==
  LET reads == outcome # "exception_before" /\ io
      rates == RatesBlock(now, reads, again /\ prev_total_io)
      failed == outcome # "ok" \/ ZeroDivision(rates)
  IN /\ adapter = "DiskAdapter"
     /\ failed => error_count < MaxErrors
     /\ prev_io_counters' = IF failed THEN prev_io_counters ELSE per_disk
     /\ prev_timestamp' = IF failed THEN prev_timestamp ELSE now
     /\ prev_total_io' = IF reads /\ ~ZeroDivision(rates) THEN TRUE ELSE prev_total_io
     /\ error_count' = IF failed THEN record_error(error_count) ELSE reset_error_count
     /\ lastCall' = Call("collect_metrics",
                         IF reads \/ some THEN "metrics" ELSE "empty", FALSE, rates)
     /\ UNCHANGED <<adapter, initialized, everInitialized>>
     /\ UNCHANGED exceptAdapter

\* collect_metrics() of the cpu, memory and GPU adapters. The Intel adapter builds
\* its two metrics with no call that can fail, and counts no error.
CollectPlain(outcome, some) ==
  /\ adapter \notin RateAdapters
  /\ outcome \in {"ok", "exception_before"}
  /\ IF ReturnsAtOnce
       THEN /\ outcome = "ok"
            /\ lastCall' = Call("collect_metrics", "empty", FALSE, NoRates)
            /\ UNCHANGED error_count
       ELSE IF adapter = "IntelGPUAdapter"
         THEN /\ outcome = "ok"
              /\ lastCall' = Call("collect_metrics", "metrics", FALSE, NoRates)
              /\ UNCHANGED error_count
         ELSE /\ outcome # "ok" => error_count < MaxErrors
              /\ error_count' = IF outcome = "ok" THEN reset_error_count
                                                  ELSE record_error(error_count)
              /\ lastCall' = Call("collect_metrics",
                                  IF some \/ (outcome = "ok" /\ adapter # "NvidiaGPUAdapter")
                                    THEN "metrics" ELSE "empty",
                                  FALSE, NoRates)
  /\ UNCHANGED <<adapter, initialized, prev_io_counters, prev_timestamp, prev_total_io,
                 everInitialized>>
  /\ UNCHANGED exceptAdapter

(***************************************************************************)
(* The device identifier (utils.generate_hardware_id and                   *)
(* utils.get_cached_hardware_id). A string is the sequence of its          *)
(* characters, so that join, sorted and the f-strings are computed as      *)
(* Python computes them. A digest is kept as the algorithm and the string  *)
(* it was computed from: two digests are equal exactly when both agree,    *)
(* and the identifier is its first 32 characters.                          *)
(***************************************************************************)
\* The code point of a character of a GPU name
CodePoint(c) == CASE c = "a" -> 97 [] c = "b" -> 98 [] c = "|" -> 124 [] OTHER -> 0

\* s < t as Python compares two str
RECURSIVE StrLess(_, _)
StrLess(s, t) ==
  IF t = <<>> THEN FALSE
  ELSE IF s = <<>> THEN TRUE
  ELSE IF CodePoint(Head(s)) # CodePoint(Head(t))
         THEN CodePoint(Head(s)) < CodePoint(Head(t))
         ELSE StrLess(Tail(s), Tail(t))

\* sorted(names): insertion of each name before the first greater one
RECURSIVE InsertSorted(_, _)
InsertSorted(name, list) ==
  IF list = <<>> THEN <<name>>
  ELSE IF StrLess(name, Head(list)) THEN <<name>> \o list
  ELSE <<Head(list)>> \o InsertSorted(name, Tail(list))

RECURSIVE Sorted(_)
Sorted(names) ==
  IF names = <<>> THEN <<>> ELSE InsertSorted(Head(names), Sorted(Tail(names)))

\* sep.join(parts)
RECURSIVE Join(_, _)
Join(sep, parts) ==
  IF parts = <<>> THEN <<>>
  ELSE IF Len(parts) = 1 THEN Head(parts)
  ELSE Head(parts) \o sep \o Join(sep, Tail(parts))

\* The hardware_id section of a config; Defaults is get_default_config()
HashAlgorithms == {"sha256", "sha512"}
HardwareIdConfigs ==
  [include_cpu : BOOLEAN, include_gpu : BOOLEAN, include_motherboard : {TRUE},
   hash_algorithm : HashAlgorithms]
DefaultHardwareIdConfig ==
  [include_cpu |-> TRUE, include_gpu |-> TRUE, include_motherboard |-> TRUE,
   hash_algorithm |-> "sha256"]

\* What Win32_BaseBoard answers: f"MB:{board.Manufacturer}:{board.Product}"; NoBoard
\* when the platform is not win32 or the WMI query raised
NoBoard == <<>>
BoardComponent == <<"M", "B", ":", "m", ":", "p">>

\* The `components` list of generate_hardware_id
Components(cpu_model, gpu_names, hw_config, board) ==
  (IF hw_config.include_cpu THEN <<(<<"C", "P", "U", ":">> \o cpu_model)>> ELSE <<>>)
  \o (IF hw_config.include_gpu
        THEN <<(<<"G", "P", "U", ":">> \o Join(<<"|">>, Sorted(gpu_names)))>>
        ELSE <<>>)
  \o (IF hw_config.include_motherboard /\ board # NoBoard THEN <<board>> ELSE <<>>)

\* combined = "||".join(components)
Combined(cpu_model, gpu_names, hw_config, board) ==
  Join(<<"|", "|">>, Components(cpu_model, gpu_names, hw_config, board))

\* hasher(combined.encode("utf-8")).hexdigest()[:32]
generate_hardware_id(cpu_model, gpu_names, hw_config, board) ==
  [algorithm |-> hw_config.hash_algorithm,
   of |-> Combined(cpu_model, gpu_names, hw_config, board)]

\* The inputs of generate_hardware_id: GPU names with and without the separator
CpuModels == {<<"x">>, <<"y">>}
GpuNames == {<<"a">>, <<"b">>, <<"a", "|", "b">>}
GpuNameLists == UNION {[1..n -> GpuNames] : n \in 0..MaxGpus}

\* History: no call yet
NoCall == [called |-> FALSE, cpu_model |-> <<>>, gpu_names |-> <<>>, board |-> NoBoard,
           id |-> [algorithm |-> "none", of |-> <<>>]]

GenInit ==
  /\ hid_config = DefaultHardwareIdConfig
  /\ genPrev = NoCall
  /\ genLast = NoCall

\* One call of generate_hardware_id(cpu_model, gpu_names, config)
GenerateHardwareId(cpu_model, gpu_names, board) ==
  /\ genPrev' = genLast
  /\ genLast' = [called |-> TRUE, cpu_model |-> cpu_model, gpu_names |-> gpu_names,
                 board |-> board,
                 id |-> generate_hardware_id(cpu_model, gpu_names, hid_config, board)]
  /\ UNCHANGED hid_config
  /\ UNCHANGED exceptGen

\* The hardware of the machine: what cpuinfo, pynvml and WMI report when they answer
Machines == [cpu_model : CpuModels, gpu_names : {<<>>, <<(<<"a">>)>>},
             board : {NoBoard, BoardComponent}]

\* gpu_names = ["No NVIDIA GPU detected"], shortened to its first word
NoGpuDetected == <<(<<"N", "o">>)>>

\* The length get_cached_hardware_id asks of the stripped cache content
IdLength == 32

NoId == [algorithm |-> "none", of |-> <<>>]
NoCacheFile == [exists |-> FALSE, length |-> 0, id |-> NoId]

CacheInit ==
  /\ machine = [cpu_model |-> <<"x">>, gpu_names |-> <<>>, board |-> NoBoard]
  /\ cache_file = NoCacheFile
  /\ idsReturned = {}
  /\ boots = 0

\* get_system_info().hardware_id: an exception of pynvml gives the placeholder name,
\* an exception of WMI leaves the board out
SystemHardwareId(nvml, wmi) ==
  generate_hardware_id(machine.cpu_model,
                       IF nvml = "ok" THEN machine.gpu_names ELSE NoGpuDetected,
                       DefaultHardwareIdConfig,
                       IF wmi = "ok" THEN machine.board ELSE NoBoard)

\* get_cached_hardware_id() of one process:
\*   readable  open(cache_file, "r") and read() raise nothing
\*   writable  open(cache_file, "w") and write() raise nothing
GetCachedHardwareId(readable, nvml, wmi, writable) ==
  /\ boots < MaxBoots
  /\ boots' = boots + 1
  /\ IF cache_file.exists /\ readable /\ cache_file.length = IdLength
       THEN /\ idsReturned' = idsReturned \cup {cache_file.id}
            /\ UNCHANGED cache_file
       ELSE /\ idsReturned' = idsReturned \cup {SystemHardwareId(nvml, wmi)}
            /\ cache_file' = IF writable
                               THEN [exists |-> TRUE, length |-> IdLength,
                                     id |-> SystemHardwareId(nvml, wmi)]
                               ELSE cache_file
  /\ UNCHANGED machine
  /\ UNCHANGED exceptCache

(***************************************************************************)
(* HardwareLogger: start(), stop() and the threads they start and wait     *)
(* for. Time passes in ticks of one second. A sleep ends when its seconds  *)
(* have passed; collecting, syncing and the steps of stop() take any time. *)
(* A sleep with more than JoinTimeout seconds left is kept as one with     *)
(* JoinTimeout + 1 left: after a second it has that much left, or one less.*)
(***************************************************************************)
\* self._collect_thread.join(timeout=5)
JoinTimeout == 5

\* time.sleep(30) before the first sync of _upload_loop
GraceSeconds == 30

ThreadIds == 1..MaxStarts
NoThread == 0

\* A thread that start() has not created
Unborn == [pc |-> "unborn", left |-> 0, n |-> 0]

Alive(thread) == thread.pc \notin {"unborn", "ended"}

\* sleep_time = max(0, self.interval - elapsed)
SleepTime(elapsed) == IF interval - elapsed > 0 THEN interval - elapsed ELSE 0

\* History: the last stop() call
NoStop == [called |-> FALSE, was_running |-> FALSE, outcome |-> "none", steps |-> <<>>,
           left_in_buffer |-> 0, unwritten |-> 0]

LifeInit ==
  /\ interval = 1
  /\ cloud_sync = FALSE
  /\ logger_running = FALSE
  /\ collectors = [i \in ThreadIds |-> Unborn]
  /\ uploaders = [i \in ThreadIds |-> Unborn]
  /\ collect_thread = NoThread
  /\ starts = 0
  /\ stopPc = "idle"
  /\ joinLeft = 0
  /\ buffered_count = 0
  /\ retained_count = 0
  /\ written_count = 0
  /\ lastStop = NoStop

\* start(): nothing when already running; otherwise the flag is set, then
\* get_system_info() is called, then the threads are created
Start(info_ok) ==
  /\ stopPc = "idle"
  /\ starts < MaxStarts
  /\ IF logger_running
       THEN UNCHANGED <<logger_running, collectors, uploaders, collect_thread, starts>>
       ELSE /\ logger_running' = TRUE
            /\ IF info_ok
                 THEN /\ starts' = starts + 1
                      /\ collectors' = [collectors EXCEPT ![starts + 1] =
                                          [pc |-> "test", left |-> 0, n |-> 0]]
                      /\ collect_thread' = starts + 1
                      /\ uploaders' = IF cloud_sync
                                        THEN [uploaders EXCEPT ![starts + 1] =
                                                [pc |-> "grace", left |-> Min(GraceSeconds, JoinTimeout + 1), n |-> 0]]
                                        ELSE uploaders
                 ELSE UNCHANGED <<collectors, uploaders, collect_thread, starts>>
  /\ UNCHANGED <<interval, cloud_sync, stopPc, joinLeft, buffered_count, retained_count,
                 written_count, lastStop>>
  /\ UNCHANGED exceptLife

\* _collection_loop: `while self._running`
CollectorTest(i) ==
  /\ collectors[i].pc = "test"
  /\ collectors' = [collectors EXCEPT ![i].pc = IF logger_running THEN "collect" ELSE "ended"]
  /\ UNCHANGED <<interval, cloud_sync, logger_running, uploaders, collect_thread, starts,
                 stopPc, joinLeft, buffered_count, retained_count, written_count, lastStop>>
  /\ UNCHANGED exceptLife

\* _collection_loop: one pass of the body. The snapshot is retained or not; a full
\* buffer is flushed, and a failed write of the flush is caught by the loop, the batch
\* gone with it. Then the thread sleeps max(0, interval - elapsed) seconds.
CollectorPass(i, retains, write_ok, elapsed) ==
  LET held == buffered_count + (IF retains THEN 1 ELSE 0)
      full == held >= BufferSize
  IN /\ collectors[i].pc = "collect"
     /\ ~write_ok => full
     /\ retains => retained_count < MaxRetained
     /\ retained_count' = retained_count + (IF retains THEN 1 ELSE 0)
     /\ buffered_count' = IF full THEN 0 ELSE held
     /\ written_count' = IF full /\ write_ok THEN written_count + held ELSE written_count
     /\ collectors' = [collectors EXCEPT ![i] =
                         IF SleepTime(elapsed) > 0
                           THEN [pc |-> "sleep", left |-> SleepTime(elapsed), n |-> 0]
                           ELSE [pc |-> "test", left |-> 0, n |-> 0]]
     /\ UNCHANGED <<interval, cloud_sync, logger_running, uploaders, collect_thread, starts,
                    stopPc, joinLeft, lastStop>>
     /\ UNCHANGED exceptLife

\* time.sleep(sleep_time) returns
CollectorWake(i) ==
  /\ collectors[i].pc = "sleep"
  /\ collectors[i].left = 0
  /\ collectors' = [collectors EXCEPT ![i].pc = "test"]
  /\ UNCHANGED <<interval, cloud_sync, logger_running, uploaders, collect_thread, starts,
                 stopPc, joinLeft, buffered_count, retained_count, written_count, lastStop>>
  /\ UNCHANGED exceptLife

\* _upload_loop: time.sleep(30) returns, or a one-second sleep of the interval returns
UploaderWake(i) ==
  /\ uploaders[i].pc \in {"grace", "nap"}
  /\ uploaders[i].left = 0
  /\ uploaders' = [uploaders EXCEPT ![i] =
                     IF uploaders[i].pc = "grace"
                       THEN [pc |-> "test", left |-> 0, n |-> 0]
                       ELSE [pc |-> "wait", left |-> 0, n |-> uploaders[i].n - 1]]
  /\ UNCHANGED <<interval, cloud_sync, logger_running, collectors, collect_thread, starts,
                 stopPc, joinLeft, buffered_count, retained_count, written_count, lastStop>>
  /\ UNCHANGED exceptLife

\* _upload_loop: `while self._running`
UploaderTest(i) ==
  /\ uploaders[i].pc = "test"
  /\ uploaders' = [uploaders EXCEPT ![i].pc = IF logger_running THEN "sync" ELSE "ended"]
  /\ UNCHANGED <<interval, cloud_sync, logger_running, collectors, collect_thread, starts,
                 stopPc, joinLeft, buffered_count, retained_count, written_count, lastStop>>
  /\ UNCHANGED exceptLife

\* _upload_loop: self._cloud_sync.sync() is over, whatever it returned or raised
UploaderSynced(i) ==
  /\ uploaders[i].pc = "sync"
  /\ uploaders' = [uploaders EXCEPT ![i] = [pc |-> "wait", left |-> 0, n |-> SyncSeconds]]
  /\ UNCHANGED <<interval, cloud_sync, logger_running, collectors, collect_thread, starts,
                 stopPc, joinLeft, buffered_count, retained_count, written_count, lastStop>>
  /\ UNCHANGED exceptLife

\* _upload_loop: the top of `for _ in range(interval_minutes * 60)`
UploaderWait(i) ==
  /\ uploaders[i].pc = "wait"
  /\ uploaders' = [uploaders EXCEPT ![i] =
                     IF uploaders[i].n = 0 THEN [pc |-> "test", left |-> 0, n |-> 0]
                     ELSE IF ~logger_running THEN [pc |-> "ended", left |-> 0, n |-> 0]
                     ELSE [pc |-> "nap", left |-> 1, n |-> uploaders[i].n]]
  /\ UNCHANGED <<interval, cloud_sync, logger_running, collectors, collect_thread, starts,
                 stopPc, joinLeft, buffered_count, retained_count, written_count, lastStop>>
  /\ UNCHANGED exceptLife

\* stop(): nothing when not running; otherwise the flag is cleared and the
\* collection thread is waited for
StopBegin ==
  /\ stopPc = "idle"
  /\ IF ~logger_running
       THEN /\ lastStop' = [NoStop EXCEPT !.called = TRUE, !.outcome = "returned"]
            /\ UNCHANGED <<logger_running, stopPc, joinLeft>>
       ELSE /\ logger_running' = FALSE
            /\ stopPc' = IF collect_thread # NoThread THEN "join" ELSE "flush"
            /\ joinLeft' = JoinTimeout
            /\ lastStop' = [NoStop EXCEPT !.called = TRUE, !.was_running = TRUE,
                                          !.outcome = "running"]
  /\ UNCHANGED <<interval, cloud_sync, collectors, uploaders, collect_thread, starts,
                 buffered_count, retained_count, written_count>>
  /\ UNCHANGED exceptLife

\* join(timeout=5) returns: the thread has ended or the five seconds have passed
StopJoined ==
  /\ stopPc = "join"
  /\ ~Alive(collectors[collect_thread]) \/ joinLeft = 0
  /\ stopPc' = "flush"
  /\ UNCHANGED <<interval, cloud_sync, logger_running, collectors, uploaders,
                 collect_thread, starts, joinLeft, buffered_count, retained_count,
                 written_count, lastStop>>
  /\ UNCHANGED exceptLife

\* How stop() goes on after a step, or ends with the exception the step raised
StopAfter(step, ok, next, left, unwritten) ==
  /\ stopPc' = IF ok THEN next ELSE "idle"
  /\ lastStop' = IF ok THEN [lastStop EXCEPT !.steps = Append(@, step)]
                       ELSE [lastStop EXCEPT !.outcome = "raised",
                                             !.left_in_buffer = left,
                                             !.unwritten = unwritten]

\* stop(): self._flush_buffer(), the writer and the data manager closed. get_batch()
\* empties the buffer; a write that raises ends stop() there.
StopFlush(write_ok) ==
  /\ stopPc = "flush"
  /\ ~write_ok => buffered_count > 0
  /\ buffered_count' = 0
  /\ written_count' = IF write_ok THEN written_count + buffered_count ELSE written_count
  /\ StopAfter("flush", write_ok, "sync", 0, retained_count - written_count)
  /\ UNCHANGED <<interval, cloud_sync, logger_running, collectors, uploaders,
                 collect_thread, starts, joinLeft, retained_count>>
  /\ UNCHANGED exceptLife

\* stop(): the final sync inside try / except, when cloud sync is on
StopSync ==
  /\ stopPc = "sync"
  /\ stopPc' = "compress"
  /\ lastStop' = IF cloud_sync THEN [lastStop EXCEPT !.steps = Append(@, "sync")]
                               ELSE lastStop
  /\ UNCHANGED <<interval, cloud_sync, logger_running, collectors, uploaders,
                 collect_thread, starts, joinLeft, buffered_count, retained_count,
                 written_count>>
  /\ UNCHANGED exceptLife

\* stop(): compress_old_files(), whose stat() of a file is outside its try, then
\* save_session_state(), which catches what it meets
StopCompress(stat_ok) ==
  /\ stopPc = "compress"
  /\ StopAfter("compress", stat_ok, "cleanup", buffered_count,
               retained_count - written_count)
  /\ UNCHANGED <<interval, cloud_sync, logger_running, collectors, uploaders,
                 collect_thread, starts, joinLeft, buffered_count, retained_count,
                 written_count>>
  /\ UNCHANGED exceptLife

\* stop(): adapter.cleanup() of each adapter inside try / except; stop() returns
StopCleanup ==
  /\ stopPc = "cleanup"
  /\ stopPc' = "idle"
  /\ lastStop' = [lastStop EXCEPT !.steps = Append(@, "cleanup"), !.outcome = "returned",
                                  !.left_in_buffer = buffered_count,
                                  !.unwritten = retained_count - written_count]
  /\ UNCHANGED <<interval, cloud_sync, logger_running, collectors, uploaders,
                 collect_thread, starts, joinLeft, buffered_count, retained_count,
                 written_count>>
  /\ UNCHANGED exceptLife

\* A thread that has a step to take at once: a test of the flag, or a sleep that is over
Pending(thread) ==
  \/ thread.pc \in {"test", "wait"}
  \/ thread.pc \in {"sleep", "grace", "nap"} /\ thread.left = 0

\* long: a sleep with more than JoinTimeout seconds left still has more than that
Slept(thread, long) ==
  IF thread.pc \in {"sleep", "grace", "nap"} /\ ~(long /\ thread.left > JoinTimeout)
    THEN [thread EXCEPT !.left = @ - 1] ELSE thread

\* One second passes
Tick(long) ==
  /\ \A i \in ThreadIds : ~Pending(collectors[i]) /\ ~Pending(uploaders[i])
  /\ ~(stopPc = "join" /\ (joinLeft = 0 \/ ~Alive(collectors[collect_thread])))
  /\ collectors' = [i \in ThreadIds |-> Slept(collectors[i], long)]
  /\ uploaders' = [i \in ThreadIds |-> Slept(uploaders[i], long)]
  /\ joinLeft' = IF stopPc = "join" THEN joinLeft - 1 ELSE joinLeft
  /\ UNCHANGED <<interval, cloud_sync, logger_running, collect_thread, starts, stopPc,
                 buffered_count, retained_count, written_count, lastStop>>
  /\ UNCHANGED exceptLife

(***************************************************************************)
(* The rolling writer and its aging sweep (hardware_logger.py, CSVWriter). *)
(* A file of the log directory is old when its mtime is before the cutoff  *)
(* of compress_old_files; the threshold is at least one day, as in the     *)
(* default config, so the path _get_file_path names (today's date) is      *)
(* never an old file.  compress_old_files does not take the writer's lock: *)
(* its steps interleave with write_batch and close.                        *)
(***************************************************************************)
LogFiles == 1..MaxLogFiles
NoPath == 0
GzStates == {"none", "partial", "complete"}
\* The file the sweep is looking at is the one it skips
NothingCurrent(csv_file) == FALSE
IsCurrentFile(csv_file) == csv_file = current_file
\* mtime < cutoff, and no compressed copy yet
DueForCompression(csv_file) ==
  log_dir[csv_file].old /\ log_dir[csv_file].gz = "none"

\* A CSVWriter as constructed, over a log directory and a config
NewWriter(dir, flag) ==
  /\ log_dir = dir
  /\ compress_old = flag
  /\ current_file = NoPath
  /\ file_handle = NoPath
  /\ sweepPc = "idle"
  /\ sweepTodo = {}
  /\ sweepFile = NoPath
  /\ swept = {}
  /\ unlinked = {}
  /\ lastSweep = "none"
\* What the log directory can hold when the writer is constructed: files of earlier
\* runs, old or not, none of them compressed
LogDirs ==
  {d \in [LogFiles -> [csv : BOOLEAN, old : BOOLEAN, gz : {"none"}]] :
     \A f \in LogFiles : d[f].old => d[f].csv}
SweepInit == NewWriter([f \in LogFiles |-> [csv |-> FALSE, old |-> FALSE, gz |-> "none"]], TRUE)

\* write_batch(records) with records not empty: _get_file_path names file_path;
\* the file is opened when it is not the one already open
WriteBatch(file_path, open_ok) ==
  /\ ~log_dir[file_path].old
  /\ IF current_file # file_path \/ file_handle = NoPath
       THEN IF open_ok
              THEN /\ file_handle' = file_path
                   /\ current_file' = file_path
                   /\ log_dir' = [log_dir EXCEPT ![file_path].csv = TRUE]
              ELSE /\ file_handle' = NoPath
                   /\ UNCHANGED <<current_file, log_dir>>
       ELSE /\ open_ok
            /\ UNCHANGED <<file_handle, current_file, log_dir>>
  /\ UNCHANGED <<compress_old, sweepPc, sweepTodo, sweepFile, swept, unlinked, lastSweep>>
  /\ UNCHANGED exceptSweep

\* close(): _close_file leaves _current_file as it is
CloseWriter ==
  /\ file_handle # NoPath
  /\ file_handle' = NoPath
  /\ UNCHANGED <<log_dir, compress_old, current_file, sweepPc, sweepTodo, sweepFile,
                 swept, unlinked, lastSweep>>
  /\ UNCHANGED exceptSweep

\* Time passes: the mtime of a file falls behind the cutoff
Age(csv_file) ==
  /\ log_dir[csv_file].csv
  /\ ~log_dir[csv_file].old
  /\ log_dir' = [log_dir EXCEPT ![csv_file].old = TRUE]
  /\ UNCHANGED <<compress_old, current_file, file_handle, sweepPc, sweepTodo, sweepFile,
                 swept, unlinked, lastSweep>>
  /\ UNCHANGED exceptSweep

\* The process ends, wherever the sweep is, and a new CSVWriter is constructed
RestartWriter ==
  /\ current_file # NoPath \/ sweepPc # "idle"
  /\ current_file' = NoPath
  /\ file_handle' = NoPath
  /\ sweepPc' = "idle"
  /\ sweepTodo' = {}
  /\ sweepFile' = NoPath
  /\ UNCHANGED <<log_dir, compress_old, swept, unlinked, lastSweep>>
  /\ UNCHANGED exceptSweep

\* compress_old_files(): the early return, or the glob of the log directory
SweepBegin ==
  /\ sweepPc = "idle"
  /\ swept' = {}
  /\ IF compress_old
       THEN /\ sweepPc' = "scan"
            /\ sweepTodo' = {f \in LogFiles : log_dir[f].csv}
            /\ UNCHANGED lastSweep
       ELSE /\ lastSweep' = "off"
            /\ UNCHANGED <<sweepPc, sweepTodo>>
  /\ UNCHANGED <<log_dir, compress_old, current_file, file_handle, sweepFile, unlinked>>
  /\ UNCHANGED exceptSweep

\* One turn of the for loop up to gzip.open: the skip of the current file, the
\* age test, the test for an existing copy; open_ok: both files could be opened
SweepVisit(csv_file, open_ok) ==
  /\ sweepPc = "scan"
  /\ csv_file \in sweepTodo
  /\ sweepTodo' = sweepTodo \ {csv_file}
  /\ swept' = swept \cup {csv_file}
  /\ IF ~IsCurrentFile(csv_file) /\ DueForCompression(csv_file) /\ open_ok
       THEN /\ sweepPc' = "copy"
            /\ sweepFile' = csv_file
            /\ log_dir' = [log_dir EXCEPT ![csv_file].gz = "partial"]
       ELSE /\ open_ok \/ (~IsCurrentFile(csv_file) /\ DueForCompression(csv_file))
            /\ UNCHANGED <<sweepPc, sweepFile, log_dir>>
  /\ UNCHANGED <<compress_old, current_file, file_handle, unlinked, lastSweep>>
  /\ UNCHANGED exceptSweep

\* shutil.copyfileobj and the end of the two with blocks; a failure is logged
\* and the loop goes on
SweepCopy(ok) ==
  /\ sweepPc = "copy"
  /\ IF ok
       THEN /\ log_dir' = [log_dir EXCEPT ![sweepFile].gz = "complete"]
            /\ sweepPc' = "unlink"
            /\ UNCHANGED sweepFile
       ELSE /\ sweepPc' = "scan"
            /\ sweepFile' = NoPath
            /\ UNCHANGED log_dir
  /\ UNCHANGED <<compress_old, current_file, file_handle, sweepTodo, swept, unlinked,
                 lastSweep>>
  /\ UNCHANGED exceptSweep

\* csv_file.unlink(), inside the same try
SweepUnlink(ok) ==
  /\ sweepPc = "unlink"
  /\ IF ok
       THEN /\ log_dir' = [log_dir EXCEPT ![sweepFile].csv = FALSE]
            /\ unlinked' = unlinked \cup {sweepFile}
       ELSE UNCHANGED <<log_dir, unlinked>>
  /\ sweepPc' = "scan"
  /\ sweepFile' = NoPath
  /\ UNCHANGED <<compress_old, current_file, file_handle, sweepTodo, swept, lastSweep>>
  /\ UNCHANGED exceptSweep

\* The for loop is over: return compressed
SweepEnd ==
  /\ sweepPc = "scan"
  /\ sweepTodo = {}
  /\ sweepPc' = "idle"
  /\ lastSweep' = "done"
  /\ UNCHANGED <<log_dir, compress_old, current_file, file_handle, sweepTodo, sweepFile,
                 swept, unlinked>>
  /\ UNCHANGED exceptSweep

(***************************************************************************)
(* The workload classifier (utils.py, SessionClassifier).  The snapshots   *)
(* of the model carry gpu_utilization and cpu_utilization together or      *)
(* nothing, so every key of the averages is averaged over the same number  *)
(* n of samples; THRESHOLDS keeps the rules over these two metrics, the    *)
(* rules over metrics no snapshot carries being passed over by             *)
(* _score_category.  An average is the pair <<sum, n>> and a score the     *)
(* pair <<matched, total>> with matched counted in units of                *)
(* 1 / (10 * n * RangeLcm), which keeps the arithmetic of the code exact.  *)
(***************************************************************************)
HistoryMaxLen == 60
MinSamples == 5
ConfidenceTenths == 6
CategoryOrder ==
  <<"gaming", "ai_training", "cad_3d_modeling", "graphics_design", "video_editing",
    "coding_development", "document_editing", "web_browsing", "idle",
    "system_maintenance">>
THRESHOLDS ==
  [gaming |-> [gpu_utilization |-> <<60, 100>>, cpu_utilization |-> <<30, 90>>],
   ai_training |-> [gpu_utilization |-> <<80, 100>>, cpu_utilization |-> <<20, 80>>],
   cad_3d_modeling |-> [gpu_utilization |-> <<30, 90>>, cpu_utilization |-> <<40, 90>>],
   graphics_design |-> [gpu_utilization |-> <<20, 70>>, cpu_utilization |-> <<30, 80>>],
   video_editing |-> [cpu_utilization |-> <<40, 95>>],
   coding_development |-> [gpu_utilization |-> <<0, 30>>, cpu_utilization |-> <<10, 60>>],
   document_editing |-> [gpu_utilization |-> <<0, 20>>, cpu_utilization |-> <<5, 40>>],
   web_browsing |-> [gpu_utilization |-> <<0, 40>>, cpu_utilization |-> <<5, 50>>],
   idle |-> [gpu_utilization |-> <<0, 10>>, cpu_utilization |-> <<0, 10>>],
   system_maintenance |-> [cpu_utilization |-> <<30, 100>>, gpu_utilization |-> <<0, 30>>]]
\* What update() is called with: no metric at all, an idle machine, and a machine
\* whose GPU is saturated while its CPU does nothing, which no category matches
MetricsInputs ==
  {<<>>,
   [utilization |-> 5, total_utilization |-> 5],
   [utilization |-> 100, total_utilization |-> 0]}
NoCategory == [name |-> "", confidence |-> <<0, 1>>, detected_at |-> 0]

RECURSIVE Gcd(_, _)
Gcd(a, b) == IF b = 0 THEN a ELSE Gcd(b, a % b)
RECURSIVE LcmOf(_)
LcmOf(S) ==
  IF S = {} THEN 1
  ELSE LET x == CHOOSE y \in S : TRUE
           l == LcmOf(S \ {x})
       IN (x * l) \div Gcd(x, l)
RangeSize(rule) == rule[2] - rule[1]
RangeLcm ==
  LcmOf({RangeSize(THRESHOLDS[c][k]) : c \in DOMAIN THRESHOLDS, k \in {"cpu_utilization"}}
        \cup {RangeSize(THRESHOLDS[c].gpu_utilization) :
                c \in {d \in DOMAIN THRESHOLDS : "gpu_utilization" \in DOMAIN THRESHOLDS[d]}})

\* _extract_metrics on the metrics of the model
extract_metrics(metrics) ==
  IF metrics = <<>> THEN <<>>
  ELSE [gpu_utilization |-> metrics.utilization,
        cpu_utilization |-> metrics.total_utilization]
\* self._history.append(snapshot) on a deque(maxlen=60)
AppendBounded(h, snapshot) ==
  IF Len(h) = HistoryMaxLen THEN Append(Tail(h), snapshot) ELSE Append(h, snapshot)
RECURSIVE KeySum(_, _)
KeySum(h, key) ==
  IF h = <<>> THEN 0
  ELSE (IF key \in DOMAIN Head(h) THEN Head(h)[key] ELSE 0) + KeySum(Tail(h), key)
KeyCount(h, key) == Cardinality({i \in 1..Len(h) : key \in DOMAIN h[i]})
\* _calculate_averages: key -> <<sum(values), len(values)>>
calculate_averages(h) ==
  [key \in UNION {DOMAIN h[i] : i \in 1..Len(h)} |-> <<KeySum(h, key), KeyCount(h, key)>>]
\* The number of samples every average is over
SamplesOf(avg_metrics) ==
  IF DOMAIN avg_metrics = {} THEN 1
  ELSE avg_metrics[CHOOSE k \in DOMAIN avg_metrics : TRUE][2]
\* What one rule adds to `matched`, in units of 1 / (10 * n * RangeLcm)
Credit(value, rule) ==
  LET n == value[2]
      whole == 10 * n * RangeLcm
  IN IF rule[1] * n <= value[1] /\ value[1] <= rule[2] * n
       THEN IF RangeSize(rule) > 0
              THEN whole - 3 * Abs(2 * value[1] - (rule[1] + rule[2]) * n)
                             * (RangeLcm \div RangeSize(rule))
              ELSE whole
       ELSE 0
RECURSIVE SumCredits(_, _, _)
SumCredits(avg_metrics, thresholds, keys) ==
  IF keys = {} THEN 0
  ELSE LET k == CHOOSE x \in keys : TRUE
       IN Credit(avg_metrics[k], thresholds[k]) + SumCredits(avg_metrics, thresholds, keys \ {k})
\* _score_category: <<matched, total>>, <<0, 1>> for the 0.0 of no applicable rule
score_category(avg_metrics, thresholds) ==
  LET applicable == DOMAIN thresholds \cap DOMAIN avg_metrics
  IN IF applicable = {} THEN <<0, 1>>
     ELSE <<SumCredits(avg_metrics, thresholds, applicable), Cardinality(applicable)>>
ScoreLess(a, b) == a[1] * b[2] < b[1] * a[2]
\* The scoring loop and max(scores, key=scores.get): the first category of the table
\* with the highest score, from the i-th category on, `best` being the best before it
RECURSIVE BestFrom(_, _, _)
BestFrom(avg_metrics, i, best) ==
  IF i > Len(CategoryOrder) THEN best
  ELSE LET score == score_category(avg_metrics, THRESHOLDS[CategoryOrder[i]])
       IN BestFrom(avg_metrics, i + 1,
                   IF ScoreLess(best.score, score)
                     THEN [name |-> CategoryOrder[i], score |-> score]
                     ELSE best)
BestCategory(avg_metrics) ==
  BestFrom(avg_metrics, 2,
           [name |-> CategoryOrder[1],
            score |-> score_category(avg_metrics, THRESHOLDS[CategoryOrder[1]])])
\* len(self._history) < 5 is false
AnyFill(h) == TRUE
WindowFilled(h) == Len(h) >= MinSamples
\* best_score >= self.confidence_threshold, with the default threshold 0.6
MeetsConfidence(score, n) ==
  10 * score[1] >= ConfidenceTenths * score[2] * 10 * n * RangeLcm

ClassifierInit ==
  /\ history = <<>>
  /\ current_category = NoCategory
  /\ updates = 0
  /\ lastUpdate = [returned |-> NoCategory, before |-> NoCategory, called |-> FALSE]

\* update(metrics)
Update(metrics) ==
  /\ updates < MaxUpdates
  /\ updates' = updates + 1
  /\ history' = AppendBounded(history, extract_metrics(metrics))
  /\ LET avg_metrics == calculate_averages(history')
         best == BestCategory(avg_metrics)
         best_category == best.name
         best_score == best.score
         emitted == [name |-> best_category, confidence |-> best_score,
                     detected_at |-> updates']
     IN IF WindowFilled(history') /\ MeetsConfidence(best_score, SamplesOf(avg_metrics))
          THEN /\ current_category' = emitted
               /\ lastUpdate' = [returned |-> emitted, before |-> current_category,
                                 called |-> TRUE]
          ELSE /\ UNCHANGED current_category
               /\ lastUpdate' = [returned |-> NoCategory, before |-> current_category,
                                 called |-> TRUE]
  /\ UNCHANGED exceptClassifier

\* reset()
ResetClassifier ==
  /\ history # <<>>
  /\ history' = <<>>
  /\ current_category' = NoCategory
  /\ lastUpdate' = [returned |-> NoCategory, before |-> NoCategory, called |-> FALSE]
  /\ UNCHANGED updates
  /\ UNCHANGED exceptClassifier

(***************************************************************************)
(* Row accounting of the DeviceDataManager across restarts (data_manager.py*)
(* write_metrics, close, _init_files).  A local file is its header and the *)
(* rows appended to it, each row with the number of physical lines the csv *)
(* writer gave it: one, and one more for every line break inside a value,  *)
(* which the writer keeps inside a quoted field.  No call fails.           *)
(***************************************************************************)
NoLocalFile == [header |-> FALSE, rows |-> <<>>]
\* Physical lines a record takes in the file: line_breaks of its values hold a line break
RowLines(line_breaks) == 1 + line_breaks
RECURSIVE SumSeq(_)
SumSeq(s) == IF s = <<>> THEN 0 ELSE Head(s) + SumSeq(Tail(s))
\* sum(1 for _ in f): the lines of the file
LineCount(file) == (IF file.header THEN 1 ELSE 0) + SumSeq(file.rows)
\* _init_files: row_count = lines - 1 (the header), 0 when that is negative
RecountRows(file) ==
  IF LineCount(file) - 1 < 0 THEN 0 ELSE LineCount(file) - 1
\* The data rows physically present in the file
PhysicalRows(file) == Len(file.rows)

AccountInit ==
  /\ local_files = [t \in Types |-> NoLocalFile]
  /\ row_totals = [t \in Types |-> 0]
  /\ open_files = {}
  /\ restarts = 0
  /\ lastAppend = [t \in Types |-> [before |-> 0, after |-> 0]]

\* write_metrics(metrics) with records for the types S; with_break: the types whose
\* record has a string value with a line break in it.  _get_writer opens the file
\* and writes the header of an empty file; each row is counted once.
WriteRecords(S, with_break) ==
  /\ S # {}
  /\ with_break \subseteq S
  /\ \A t \in S : Len(local_files[t].rows) < MaxAppends
  /\ local_files' =
       [t \in Types |->
          IF t \in S
            THEN [header |-> TRUE,
                  rows |-> Append(local_files[t].rows,
                                  RowLines(IF t \in with_break THEN 1 ELSE 0))]
            ELSE local_files[t]]
  /\ row_totals' = [t \in Types |-> IF t \in S THEN row_totals[t] + 1 ELSE row_totals[t]]
  /\ open_files' = open_files \cup S
  /\ lastAppend' = [t \in Types |->
                      IF t \in S THEN [before |-> row_totals[t], after |-> row_totals[t] + 1]
                      ELSE [before |-> row_totals[t], after |-> row_totals[t]]]
  /\ UNCHANGED restarts
  /\ UNCHANGED exceptAccount

\* close(): the handles and the writers are dropped
CloseManager ==
  /\ open_files # {}
  /\ open_files' = {}
  /\ UNCHANGED <<local_files, row_totals, restarts, lastAppend>>
  /\ UNCHANGED exceptAccount

\* The process ends and DeviceDataManager is constructed again over the same
\* directory: _init_files recounts the rows of every file
RestartManager ==
  /\ restarts < MaxRestarts
  /\ restarts' = restarts + 1
  /\ open_files' = {}
  /\ row_totals' = [t \in Types |-> RecountRows(local_files[t])]
  /\ lastAppend' = [t \in Types |-> [before |-> row_totals'[t], after |-> row_totals'[t]]]
  /\ UNCHANGED local_files
  /\ UNCHANGED exceptAccount

(***************************************************************************)
(* Appending to the remote file of one hardware type (cloud_sync.py,       *)
(* _upload_or_append_file with extract_rows_from_csv and                   *)
(* rows_to_csv_string), on the local file as _get_writer and writerow      *)
(* leave it.  A csv line is the sequence of its cells; the cells of the    *)
(* n-th record written are the n-th string of CellValues.  The drive keeps *)
(* every file created in the folder: files().create adds a file with the   *)
(* given name, whether or not one with that name exists.                   *)
(***************************************************************************)
RecordShapes == {<<"x">>, <<"x", "y">>}
CellValues == <<"1", "2", "3", "4">>
EmptyCell == ""
CsvHeader(columns) == [header |-> TRUE, cells |-> columns]
CsvRow(cells) == [header |-> FALSE, cells |-> cells]
\* DictWriter.writerow(record) of the n-th record: one cell per fieldname, the
\* restval "" for a fieldname the record lacks
RecordCells(fieldnames, record_columns, n) ==
  [i \in 1..Len(fieldnames) |->
     IF fieldnames[i] \in Range(record_columns) THEN CellValues[n] ELSE EmptyCell]
\* csv.DictReader on a row and DictWriter(fieldnames=headers, extrasaction="ignore") on
\* the dict it gives: one cell per header column; the cells past the header, which the
\* reader puts under the key None, are left out
RewrittenCells(headers, cells) ==
  [i \in 1..Len(headers) |-> IF i <= Len(cells) THEN cells[i] ELSE EmptyCell]
\* The cells of a row kept as they are in the local file
SameCells(headers, cells) == cells
\* extract_rows_from_csv followed by the DictWriter of the upload: the rows
\* start_row <= i < end_row of the file, each as the upload writes it
UploadedRows(headers, rows, start_row, end_row) ==
  LET last == Min(end_row, Len(rows))
      n == IF last > start_row THEN last - start_row ELSE 0
  IN [i \in 1..n |-> CsvRow(RewrittenCells(headers, rows[start_row + i]))]
\* The rows start_row <= i < end_row as they are in the local file
LocalRows(rows, start_row, end_row) ==
  [i \in 1..(end_row - start_row) |-> CsvRow(rows[start_row + i])]
\* rows_to_csv_string(headers, rows)
NewFileContent(headers, uploaded_rows) == <<CsvHeader(headers)>> \o uploaded_rows

NoSync == [kind |-> "none", why |-> "none", file |-> 0, downloaded |-> <<>>,
           before |-> <<>>, start_row |-> 0, end_row |-> 0, local |-> <<>>]

UploadInit ==
  /\ up_writer = NoWriter
  /\ up_header = <<>>
  /\ up_rows = <<>>
  /\ cloud_files = <<>>
  /\ up_cursor = 0
  /\ lastSync = NoSync

\* write_metrics for one record of the type: _get_writer, writer.writerow(record)
LocalWrite(record_columns) ==
  /\ Len(up_rows) < MaxLocalRows
  /\ LET got == GetWriter(up_writer, up_header, record_columns)
     IN /\ up_writer' = got.writer
        /\ up_header' = got.header
        /\ up_rows' = Append(up_rows, RecordCells(got.writer.fieldnames, record_columns,
                                                  Len(up_rows) + 1))
  /\ UNCHANGED <<cloud_files, up_cursor, lastSync>>
  /\ UNCHANGED exceptUpload

\* close(): the next write makes a new writer from the header of the file
LocalClose ==
  /\ up_writer.open
  /\ up_writer' = NoWriter
  /\ UNCHANGED <<up_header, up_rows, cloud_files, up_cursor, lastSync>>
  /\ UNCHANGED exceptUpload

\* One pending tuple of sync(): _upload_or_append_file, then mark_uploaded when it
\* returned a result.  found: the id _find_cloud_file returns (0: None, no file of
\* the name or an HttpError); download_ok, request_ok: the download, and the update or
\* create, did not raise HttpError.
SyncStep(found, download_ok, request_ok) ==
  LET start_row == up_cursor
      end_row == Len(up_rows)
      new_rows == UploadedRows(up_header, up_rows, start_row, end_row)
      step == [NoSync EXCEPT !.before = cloud_files, !.start_row = start_row,
                            !.end_row = end_row,
                            !.local = LocalRows(up_rows, start_row, end_row)]
  IN /\ end_row > start_row
     /\ found \in 0..Len(cloud_files)
     /\ found = 0 => download_ok
     /\ IF found # 0 /\ download_ok
          THEN /\ Len(cloud_files[found]) + Len(new_rows) <= MaxContentLen
               /\ IF request_ok
                    THEN /\ cloud_files' = [cloud_files EXCEPT ![found] = @ \o new_rows]
                         /\ up_cursor' = end_row
                         /\ lastSync' = [step EXCEPT !.kind = "append", !.file = found,
                                                     !.downloaded = cloud_files[found]]
                    ELSE /\ lastSync' = [step EXCEPT !.kind = "failed"]
                         /\ UNCHANGED <<cloud_files, up_cursor>>
          ELSE /\ Len(cloud_files) < MaxFiles
               /\ IF request_ok
                    THEN /\ cloud_files' = Append(cloud_files,
                                                  NewFileContent(up_header, new_rows))
                         /\ up_cursor' = end_row
                         /\ lastSync' = [step EXCEPT
                                           !.kind = "create",
                                           !.file = Len(cloud_files) + 1,
                                           !.why = IF found = 0 THEN "not_found"
                                                   ELSE "download_failed"]
                    ELSE /\ lastSync' = [step EXCEPT !.kind = "failed"]
                         /\ UNCHANGED <<cloud_files, up_cursor>>
     /\ UNCHANGED <<up_writer, up_header, up_rows>>
     /\ UNCHANGED exceptUpload

(***************************************************************************)
(* The adapters inside the logger (hardware_logger.py, _init_adapters,     *)
(* _collect_metrics and the cleanup loop of stop()).  _adapters holds the  *)
(* adapters whose initialize() returned True, here a CPUAdapter and an     *)
(* IntelGPUAdapter; the keys of a snapshot are kept as the set of adapters *)
(* that put a key in it.                                                   *)
(***************************************************************************)
LoggerAdapters == <<"CPUAdapter", "IntelGPUAdapter">>
AdapterSlots == 1..Len(LoggerAdapters)

\* The adapters whose collect_metrics() ends with `self._last_metrics = metrics`
StoresLastMetrics(class) == class # "IntelGPUAdapter"

\* The adapters whose collect_metrics() counts errors and resets the count
CountsErrors(class) == class # "IntelGPUAdapter"

\* get_metric_names(): the keys of _last_metrics, [] when it is empty
\* (TRUE: the names of the class's metrics, FALSE: the empty list)
get_metric_names(a) == a.last_metrics

\* An adapter of _adapters after _init_adapters
InitializedAdapter(class) ==
  [class |-> class, initialized |-> TRUE, error_count |-> 0, last_metrics |-> FALSE,
   returned |-> FALSE]

\* One collect_metrics() call of an adapter the cycle found available:
\*   "ok"         the try block ran to its end
\*   "exception"  an exception inside it, caught and recorded by the adapter
CollectedAdapter(a, outcome) ==
  IF outcome = "ok"
    THEN [a EXCEPT !.last_metrics = IF StoresLastMetrics(a.class) THEN TRUE ELSE @,
                   !.error_count = IF CountsErrors(a.class) THEN reset_error_count ELSE @,
                   !.returned = TRUE]
    ELSE [a EXCEPT !.error_count = record_error(@)]

CollectorInit ==
  /\ adapters = [s \in AdapterSlots |-> InitializedAdapter(LoggerAdapters[s])]
  /\ contributed = {}
  /\ lastCycle = [called |-> {}, unavailable |-> {}]

\* _collect_metrics(): every adapter of _adapters in turn, collect_metrics() only
\* under `if adapter.is_available()`.  outcome[s]: what the call of adapter s meets;
\* partial[s]: a call that met an exception had put a key in its dict before.
CollectMetrics(outcome, partial) ==
  LET available == {s \in AdapterSlots :
                      is_available(adapters[s].initialized, adapters[s].error_count)}
  IN /\ \A s \in AdapterSlots :
          /\ outcome[s] = "exception" => CountsErrors(adapters[s].class)
          /\ (s \notin available \/ outcome[s] = "ok") => ~partial[s]
     /\ adapters' = [s \in AdapterSlots |->
                       IF s \in available THEN CollectedAdapter(adapters[s], outcome[s])
                                          ELSE adapters[s]]
     /\ contributed' = {s \in available : outcome[s] = "ok" \/ partial[s]}
     /\ lastCycle' = [called |-> available, unavailable |-> AdapterSlots \ available]
     /\ UNCHANGED exceptCollector

\* reset_error_count() called on an adapter
ResetAdapter(s) ==
  /\ adapters' = [adapters EXCEPT ![s].error_count = reset_error_count]
  /\ UNCHANGED <<contributed, lastCycle>>
  /\ UNCHANGED exceptCollector

\* The end of stop(): adapter.cleanup() on every adapter of _adapters
CleanupAdapters ==
  /\ adapters' = [s \in AdapterSlots |-> [adapters[s] EXCEPT !.initialized = FALSE]]
  /\ UNCHANGED <<contributed, lastCycle>>
  /\ UNCHANGED exceptCollector

(***************************************************************************)
(* The device folder (cloud_sync.py, _ensure_device_folder, with           *)
(* set_device_folder_id of the data manager).  A folder id is a positive   *)
(* number, given out in the order of creation; the drive holds the folders *)
(* of the device identifier's name under the shared root.                  *)
(***************************************************************************)
\* get_device_folder_id() returns None
NoFolder == 0

\* A listing that finds no folder
ListsNothing(folders) == {}

\* files().list(q = name, parent, folder, not trashed): the folders of the name
FoldersNamed(folders) == folders

NoResolution == [by |-> "none", id |-> NoFolder, existed |-> FALSE, before |-> {},
                 saved |-> FALSE]

FolderInit ==
  /\ fo_drive = {}
  /\ fo_cached = NoFolder
  /\ fo_saved = NoFolder
  /\ fo_created = 0
  /\ fo_deleted = 0
  /\ fo_last = NoResolution

\* _ensure_device_folder() of one sync cycle.
\*   verify  what files().get of the cached id meets: "ok", "404", or "error" for
\*           another HttpError, which is raised again
\*   found   the id of files[0] of the listing (NoFolder: the list is empty)
\*   list_ok, create_ok  the request did not raise HttpError
\*   save_ok _save_sync_state wrote the file (an IOError is logged and swallowed)
EnsureDeviceFolder(verify, found, list_ok, create_ok, save_ok) ==
  LET step == [NoResolution EXCEPT !.existed = fo_cached \in fo_drive, !.before = fo_drive]
      by_cached == fo_cached # NoFolder /\ verify = "ok"
      raised == fo_cached # NoFolder /\ verify = "error"
      listed == FoldersNamed(fo_drive)
      new_id == fo_created + 1
  IN /\ fo_cached = NoFolder => verify = "ok"
     /\ (fo_cached # NoFolder /\ verify = "ok") => fo_cached \in fo_drive
     /\ verify = "404" => fo_cached \notin fo_drive
     /\ found = NoFolder <=> listed = {}
     /\ found # NoFolder => found \in listed
     /\ IF by_cached
          THEN /\ fo_last' = [step EXCEPT !.by = "cached", !.id = fo_cached]
               /\ UNCHANGED <<fo_drive, fo_cached, fo_saved, fo_created>>
          ELSE IF raised
            THEN /\ fo_last' = [step EXCEPT !.by = "raised"]
                 /\ UNCHANGED <<fo_drive, fo_cached, fo_saved, fo_created>>
            ELSE IF ~list_ok
              THEN /\ fo_last' = [step EXCEPT !.by = "failed"]
                   /\ UNCHANGED <<fo_drive, fo_cached, fo_saved, fo_created>>
              ELSE IF found # NoFolder
                THEN /\ fo_cached' = found
                     /\ fo_saved' = IF save_ok THEN found ELSE fo_saved
                     /\ fo_last' = [step EXCEPT !.by = "name", !.id = found,
                                                !.saved = save_ok]
                     /\ UNCHANGED <<fo_drive, fo_created>>
                ELSE IF create_ok
                  THEN /\ fo_created < MaxFolders
                       /\ fo_drive' = fo_drive \cup {new_id}
                       /\ fo_created' = new_id
                       /\ fo_cached' = new_id
                       /\ fo_saved' = IF save_ok THEN new_id ELSE fo_saved
                       /\ fo_last' = [step EXCEPT !.by = "created", !.id = new_id,
                                                  !.saved = save_ok]
                  ELSE /\ fo_last' = [step EXCEPT !.by = "failed"]
                       /\ UNCHANGED <<fo_drive, fo_cached, fo_saved, fo_created>>
     /\ UNCHANGED fo_deleted
     /\ UNCHANGED exceptFolder

\* The folder is deleted on the drive by somebody else
DeleteRemotely(id) ==
  /\ id \in fo_drive
  /\ fo_deleted < MaxDeletes
  /\ fo_drive' = fo_drive \ {id}
  /\ fo_deleted' = fo_deleted + 1
  /\ UNCHANGED <<fo_cached, fo_saved, fo_created, fo_last>>
  /\ UNCHANGED exceptFolder

\* A new process: _load_sync_state reads device_folder_id from sync_state.json, and
\* starts with the defaults when the file cannot be read or parsed
FolderRestart(readable) ==
  /\ fo_cached' = IF readable THEN fo_saved ELSE NoFolder
  /\ fo_last' = NoResolution
  /\ UNCHANGED <<fo_drive, fo_saved, fo_created, fo_deleted>>
  /\ UNCHANGED exceptFolder

(***************************************************************************)
(* sync() called by two threads on one CloudSyncManager (cloud_sync.py,    *)
(* sync; hardware_logger.py, _upload_loop and the final sync of stop()).   *)
(*   idle   -> wait    the service is set or authenticate() succeeds       *)
(*   wait   -> upload  `with self._lock`, _ensure_device_folder,           *)
(*                     get_pending_uploads                                 *)
(*   upload -> mark    _upload_or_append_file returned (file_id, end_row)  *)
(*   mark   -> upload  mark_uploaded                                       *)
(*   upload -> idle    no tuple left: the lock is released                 *)
(* The local files are written one record at a time; a value with a line   *)
(* break makes one data row of two text lines, which _init_files counts.   *)
(***************************************************************************)
Callers == {"loop", "stop"}

\* The lock of sync() taken for granted
SyncLockIgnored == TRUE

\* threading.Lock of the CloudSyncManager: `with self._lock`
SyncLockFree == ca_lock = "free"

NoRowHeld == "none"
NoCycle == [after_full |-> FALSE, clean |-> FALSE, requested |-> FALSE,
            changed |-> FALSE, full |-> FALSE, waited |-> FALSE]

CallsInit ==
  /\ ca_files = [t \in Types |-> HardwareFile(NoFile, 0, 0)]
  /\ ca_disk = [t \in Types |-> 0]
  /\ ca_lines = [t \in Types |-> 0]
  /\ ca_write = NoRowHeld
  /\ ca_stopped = FALSE
  /\ ca_remote = [t \in Types |-> <<>>]
  /\ ca_service = FALSE
  /\ ca_lock = "free"
  /\ ca_pc = [c \in Callers |-> "idle"]
  /\ ca_pending = [c \in Callers |-> <<>>]
  /\ ca_result = [c \in Callers |-> NoResult]
  /\ ca_cycle = [c \in Callers |-> NoCycle]
  /\ ca_prev = "other"
  /\ ca_quiet = FALSE
  /\ ca_uploads = {}

\* write_metrics for one record of type t, up to total_rows += 1: the row is in the
\* handle's buffer.  with_break: a value of the record holds a line break.
CallWriteRow(t, with_break) ==
  /\ ~ca_stopped
  /\ ca_write = NoRowHeld
  /\ TotalRows(ca_files) < MaxCallRows
  /\ with_break => ca_lines[t] = ca_disk[t]
  /\ ca_files' = [ca_files EXCEPT ![t].total_rows = @ + 1]
  /\ ca_lines' = [ca_lines EXCEPT ![t] = @ + (IF with_break THEN 2 ELSE 1)]
  /\ ca_write' = t
  /\ ca_quiet' = FALSE
  /\ UNCHANGED <<ca_disk, ca_stopped, ca_remote, ca_service, ca_lock, ca_pc, ca_pending,
                 ca_result, ca_cycle, ca_prev, ca_uploads>>
  /\ UNCHANGED exceptCalls

\* ... handle.flush(), and the lock of the data manager released
CallWriteFlush ==
  /\ ca_write # NoRowHeld
  /\ ca_disk' = [ca_disk EXCEPT ![ca_write] = @ + 1]
  /\ ca_write' = NoRowHeld
  /\ UNCHANGED <<ca_files, ca_lines, ca_stopped, ca_remote, ca_service, ca_lock, ca_pc,
                 ca_pending, ca_result, ca_cycle, ca_prev, ca_quiet, ca_uploads>>
  /\ UNCHANGED exceptCalls

\* The collection ends: no write_metrics call from here on
WritesStop ==
  /\ ~ca_stopped
  /\ ca_write = NoRowHeld
  /\ ca_stopped' = TRUE
  /\ UNCHANGED <<ca_files, ca_disk, ca_lines, ca_write, ca_remote, ca_service, ca_lock,
                 ca_pc, ca_pending, ca_result, ca_cycle, ca_prev, ca_quiet, ca_uploads>>
  /\ UNCHANGED exceptCalls

\* sync(), line 321: `if not self._service and not self.authenticate(): return {}`
CallSync(c, auth_ok) ==
  /\ ca_pc[c] = "idle"
  /\ IF ca_service \/ auth_ok
       THEN /\ ca_service' = TRUE
            /\ ca_pc' = [ca_pc EXCEPT ![c] = "wait"]
            /\ ca_cycle' = [ca_cycle EXCEPT ![c] = [NoCycle EXCEPT !.waited = ~SyncLockFree]]
            /\ UNCHANGED ca_prev
       ELSE /\ ca_prev' = "other"
            /\ UNCHANGED <<ca_service, ca_pc, ca_cycle>>
  /\ UNCHANGED <<ca_files, ca_disk, ca_lines, ca_write, ca_stopped, ca_remote, ca_lock,
                 ca_pending, ca_result, ca_quiet, ca_uploads>>
  /\ UNCHANGED exceptCalls

\* `with self._lock:`, _ensure_device_folder() and get_pending_uploads(); without a
\* folder id sync() returns {} and the lock is released
EnterSync(c, folder_ok) ==
  /\ ca_pc[c] = "wait"
  /\ SyncLockFree
  /\ IF folder_ok
       THEN /\ ca_lock' = c
            /\ ca_pending' = [ca_pending EXCEPT ![c] = PendingUploads(ca_files)]
            /\ ca_pc' = [ca_pc EXCEPT ![c] = "upload"]
            /\ ca_cycle' = [ca_cycle EXCEPT
                              ![c].after_full = (ca_prev = "full" /\ ca_quiet),
                              ![c].clean = (PendingUploads(ca_files) = <<>>),
                              ![c].full = TRUE]
            /\ ca_quiet' = TRUE
            /\ UNCHANGED ca_prev
       ELSE /\ ca_pc' = [ca_pc EXCEPT ![c] = "idle"]
            /\ ca_cycle' = [ca_cycle EXCEPT ![c] = NoCycle]
            /\ ca_prev' = "other"
            /\ UNCHANGED <<ca_lock, ca_pending, ca_quiet>>
  /\ UNCHANGED <<ca_files, ca_disk, ca_lines, ca_write, ca_stopped, ca_remote, ca_service,
                 ca_result, ca_uploads>>
  /\ UNCHANGED exceptCalls

\* _upload_or_append_file for the first pending tuple of caller c.
\*   found        the id _find_cloud_file returns (NoFile: no file of the name, or
\*                an HttpError of the listing)
\*   download_ok, request_ok  the download, and the update or create, did not raise
UploadRows(c, found, download_ok, request_ok) ==
  /\ ca_pc[c] = "upload"
  /\ ca_pending[c] # <<>>
  /\ LET p == Head(ca_pending[c])
         t == p.hw_type
         new_rows == ExtractRows(ca_disk, t, p.start_row, p.end_row)
         appends == found # NoFile /\ download_ok
         file_id == IF appends THEN found ELSE Len(ca_remote[t]) + 1
     IN /\ found \in 0..Len(ca_remote[t])
        /\ IF new_rows = <<>>
             THEN /\ ca_pending' = [ca_pending EXCEPT ![c] = Tail(@)]
                  /\ ca_cycle' = [ca_cycle EXCEPT ![c].full = FALSE]
                  /\ UNCHANGED <<ca_remote, ca_result, ca_pc, ca_uploads>>
             ELSE IF request_ok
               THEN /\ ca_remote' =
                         [ca_remote EXCEPT
                            ![t] = IF appends
                                     THEN [@ EXCEPT ![found] = CombinedContent(@, new_rows)]
                                     ELSE Append(@, RowsToCsvString(new_rows))]
                    /\ ca_result' = [ca_result EXCEPT
                                       ![c] = [id |-> file_id, rows |-> p.end_row]]
                    /\ ca_pc' = [ca_pc EXCEPT ![c] = "mark"]
                    /\ ca_cycle' = [ca_cycle EXCEPT ![c].requested = TRUE,
                                                    ![c].changed = TRUE]
                    /\ ca_uploads' = ca_uploads \cup
                                       {[caller |-> c, hw_type |-> t,
                                         start_row |-> p.start_row, end_row |-> p.end_row]}
                    /\ UNCHANGED ca_pending
               ELSE /\ ca_pending' = [ca_pending EXCEPT ![c] = Tail(@)]
                    /\ ca_cycle' = [ca_cycle EXCEPT ![c].requested = TRUE,
                                                    ![c].full = FALSE]
                    /\ UNCHANGED <<ca_remote, ca_result, ca_pc, ca_uploads>>
  /\ UNCHANGED <<ca_files, ca_disk, ca_lines, ca_write, ca_stopped, ca_service, ca_lock,
                 ca_prev, ca_quiet>>
  /\ UNCHANGED exceptCalls

\* mark_uploaded(hw_type, rows_uploaded, cloud_file_id), under the data manager's lock
MarkUploaded(c) ==
  /\ ca_pc[c] = "mark"
  /\ ca_write = NoRowHeld
  /\ LET t == Head(ca_pending[c]).hw_type
     IN ca_files' = MarkFileId(MarkRows(ca_files, t, ca_result[c].rows), t, ca_result[c].id)
  /\ ca_pending' = [ca_pending EXCEPT ![c] = Tail(@)]
  /\ ca_result' = [ca_result EXCEPT ![c] = NoResult]
  /\ ca_pc' = [ca_pc EXCEPT ![c] = "upload"]
  /\ UNCHANGED <<ca_disk, ca_lines, ca_write, ca_stopped, ca_remote, ca_service, ca_lock,
                 ca_cycle, ca_prev, ca_quiet, ca_uploads>>
  /\ UNCHANGED exceptCalls

\* The loop over the pending list is over: the with block ends and sync() returns
LeaveSync(c) ==
  /\ ca_pc[c] = "upload"
  /\ ca_pending[c] = <<>>
  /\ ca_lock' = IF ca_lock = c THEN "free" ELSE ca_lock
  /\ ca_pc' = [ca_pc EXCEPT ![c] = "idle"]
  /\ ca_prev' = IF ca_cycle[c].full THEN "full" ELSE "other"
  /\ ca_cycle' = [ca_cycle EXCEPT ![c] = NoCycle]
  /\ UNCHANGED <<ca_files, ca_disk, ca_lines, ca_write, ca_stopped, ca_remote, ca_service,
                 ca_pending, ca_result, ca_quiet, ca_uploads>>
  /\ UNCHANGED exceptCalls

\* The process ends with no call running and a new one starts: _init_files counts
\* the lines of each file, the cursors come from sync_state.json
CallsRestart ==
  /\ \A c \in Callers : ca_pc[c] = "idle"
  /\ ca_write = NoRowHeld
  /\ ca_files' = InitFiles([files |-> [t \in Types |->
                                         Cursor(ca_files[t].cloud_file_id,
                                                ca_files[t].last_row_uploaded)]],
                           ca_lines)
  /\ ca_service' = FALSE
  /\ ca_cycle' = [c \in Callers |-> NoCycle]
  /\ ca_prev' = "other"
  /\ ca_quiet' = FALSE
  /\ UNCHANGED <<ca_disk, ca_lines, ca_write, ca_stopped, ca_remote, ca_lock, ca_pc,
                 ca_pending, ca_result, ca_uploads>>
  /\ UNCHANGED exceptCalls

(***************************************************************************)
(* The two flushes of the logger (hardware_logger.py, _flush_buffer called *)
(* by _collection_loop and by stop(); get_batch of the buffer).  A         *)
(* snapshot is the number of its retention; each write_metrics call puts   *)
(* one row into the file of a hardware type, under the data manager's      *)
(* lock, so a call is one step.  How long a thread takes for a step is not *)
(* fixed: join(timeout=5) gives up on a loop that has not ended.           *)
(***************************************************************************)
Loops == 1..MaxLoops
Main == 0
NoLoop == 0

FlushInit ==
  /\ fl_running = FALSE
  /\ fl_loops = [k \in Loops |-> "none"]
  /\ fl_thread = NoLoop
  /\ fl_stop = "idle"
  /\ fl_buffer = <<>>
  /\ fl_batch = [k \in Loops \cup {Main} |-> <<>>]
  /\ fl_file = <<>>
  /\ fl_retained = 0

\* start(): `if self._running: return`, then the flag is set and a thread started
StartLogger ==
  /\ fl_stop = "idle"
  /\ ~fl_running
  /\ \E k \in Loops :
       /\ fl_loops[k] = "none"
       /\ \A j \in Loops : j < k => fl_loops[j] # "none"
       /\ fl_loops' = [fl_loops EXCEPT ![k] = "test"]
       /\ fl_thread' = k
  /\ fl_running' = TRUE
  /\ UNCHANGED <<fl_stop, fl_buffer, fl_batch, fl_file, fl_retained>>
  /\ UNCHANGED exceptFlush

\* _collection_loop: `while self._running:`
LoopTest(k) ==
  /\ fl_loops[k] = "test"
  /\ fl_loops' = [fl_loops EXCEPT ![k] = IF fl_running THEN "collect" ELSE "exited"]
  /\ UNCHANGED <<fl_running, fl_thread, fl_stop, fl_buffer, fl_batch, fl_file, fl_retained>>
  /\ UNCHANGED exceptFlush

\* ... _collect_metrics() and self._buffer.add(metrics), which retains the snapshot
\* or not
LoopAdd(k, retains) ==
  /\ fl_loops[k] = "collect"
  /\ retains => fl_retained < MaxSnapshots
  /\ IF retains
       THEN /\ fl_retained' = fl_retained + 1
            /\ fl_buffer' = Append(fl_buffer, fl_retained + 1)
       ELSE UNCHANGED <<fl_retained, fl_buffer>>
  /\ fl_loops' = [fl_loops EXCEPT ![k] = "is_full"]
  /\ UNCHANGED <<fl_running, fl_thread, fl_stop, fl_batch, fl_file>>
  /\ UNCHANGED exceptFlush

\* ... `if self._buffer.is_full():`
LoopIsFull(k) ==
  /\ fl_loops[k] = "is_full"
  /\ fl_loops' = [fl_loops EXCEPT
                    ![k] = IF Len(fl_buffer) >= BufferSize THEN "get_batch" ELSE "sleep"]
  /\ UNCHANGED <<fl_running, fl_thread, fl_stop, fl_buffer, fl_batch, fl_file, fl_retained>>
  /\ UNCHANGED exceptFlush

\* _flush_buffer: batch = self._buffer.get_batch(), the copy and the clear under
\* the buffer's lock
GetBatchOf(who) ==
  /\ fl_batch' = [fl_batch EXCEPT ![who] = fl_buffer]
  /\ fl_buffer' = <<>>

\* _flush_buffer: one write_metrics(metrics) of `for metrics in batch`
WriteNextOf(who) ==
  /\ fl_file' = Append(fl_file, Head(fl_batch[who]))
  /\ fl_batch' = [fl_batch EXCEPT ![who] = Tail(@)]

LoopGetBatch(k) ==
  /\ fl_loops[k] = "get_batch"
  /\ GetBatchOf(k)
  /\ fl_loops' = [fl_loops EXCEPT ![k] = IF fl_buffer = <<>> THEN "sleep" ELSE "write"]
  /\ UNCHANGED <<fl_running, fl_thread, fl_stop, fl_file, fl_retained>>
  /\ UNCHANGED exceptFlush

LoopWrite(k) ==
  /\ fl_loops[k] = "write"
  /\ WriteNextOf(k)
  /\ fl_loops' = [fl_loops EXCEPT ![k] = IF Tail(fl_batch[k]) = <<>> THEN "sleep" ELSE "write"]
  /\ UNCHANGED <<fl_running, fl_thread, fl_stop, fl_buffer, fl_retained>>
  /\ UNCHANGED exceptFlush

\* ... time.sleep(sleep_time), and back to the test of the flag
LoopSleep(k) ==
  /\ fl_loops[k] = "sleep"
  /\ fl_loops' = [fl_loops EXCEPT ![k] = "test"]
  /\ UNCHANGED <<fl_running, fl_thread, fl_stop, fl_buffer, fl_batch, fl_file, fl_retained>>
  /\ UNCHANGED exceptFlush

\* stop(): `if not self._running: return`, self._running = False
FinalStop ==
  /\ fl_stop = "idle"
  /\ fl_running
  /\ fl_running' = FALSE
  /\ fl_stop' = "join"
  /\ UNCHANGED <<fl_loops, fl_thread, fl_buffer, fl_batch, fl_file, fl_retained>>
  /\ UNCHANGED exceptFlush

\* ... self._collect_thread.join(timeout=5): the thread has ended, or the five
\* seconds are over
FinalJoin(timed_out) ==
  /\ fl_stop = "join"
  /\ timed_out <=> fl_loops[fl_thread] # "exited"
  /\ fl_stop' = "get_batch"
  /\ UNCHANGED <<fl_running, fl_loops, fl_thread, fl_buffer, fl_batch, fl_file, fl_retained>>
  /\ UNCHANGED exceptFlush

\* ... self._flush_buffer()
FinalGetBatch ==
  /\ fl_stop = "get_batch"
  /\ GetBatchOf(Main)
  /\ fl_stop' = IF fl_buffer = <<>> THEN "idle" ELSE "write"
  /\ UNCHANGED <<fl_running, fl_loops, fl_thread, fl_file, fl_retained>>
  /\ UNCHANGED exceptFlush

FinalWrite ==
  /\ fl_stop = "write"
  /\ WriteNextOf(Main)
  /\ fl_stop' = IF Tail(fl_batch[Main]) = <<>> THEN "idle" ELSE "write"
  /\ UNCHANGED <<fl_running, fl_loops, fl_thread, fl_buffer, fl_retained>>
  /\ UNCHANGED exceptFlush

\* The parts that run apart start as constructed
MoreInit == GenInit /\ CacheInit /\ LifeInit /\ SweepInit /\ ClassifierInit /\ AccountInit /\ UploadInit /\ CollectorInit /\ FolderInit /\ CallsInit /\ FlushInit
ApartInit ==
  WriterInit /\ LoadInit /\ RetryInit /\ CycleInit /\ LoopInit /\ AdapterInit
RestInit == ApartInit /\ MoreInit
\* Every part but one as constructed
InitBesideGen == SyncInit /\ TrackInit /\ BufInit(TRUE) /\ ApartInit /\ CacheInit /\ LifeInit /\ SweepInit /\ ClassifierInit /\ AccountInit /\ UploadInit /\ CollectorInit /\ FolderInit /\ CallsInit /\ FlushInit
InitBesideLife == SyncInit /\ TrackInit /\ BufInit(TRUE) /\ ApartInit /\ GenInit /\ CacheInit /\ SweepInit /\ ClassifierInit /\ AccountInit /\ UploadInit /\ CollectorInit /\ FolderInit /\ CallsInit /\ FlushInit
InitBesideSweep == SyncInit /\ TrackInit /\ BufInit(TRUE) /\ ApartInit /\ GenInit /\ CacheInit /\ LifeInit /\ ClassifierInit /\ AccountInit /\ UploadInit /\ CollectorInit /\ FolderInit /\ CallsInit /\ FlushInit
InitBesideClassifier == SyncInit /\ TrackInit /\ BufInit(TRUE) /\ ApartInit /\ GenInit /\ CacheInit /\ LifeInit /\ SweepInit /\ AccountInit /\ UploadInit /\ CollectorInit /\ FolderInit /\ CallsInit /\ FlushInit
InitBesideAccount == SyncInit /\ TrackInit /\ BufInit(TRUE) /\ ApartInit /\ GenInit /\ CacheInit /\ LifeInit /\ SweepInit /\ ClassifierInit /\ UploadInit /\ CollectorInit /\ FolderInit /\ CallsInit /\ FlushInit
InitBesideUpload == SyncInit /\ TrackInit /\ BufInit(TRUE) /\ ApartInit /\ GenInit /\ CacheInit /\ LifeInit /\ SweepInit /\ ClassifierInit /\ AccountInit /\ CollectorInit /\ FolderInit /\ CallsInit /\ FlushInit
InitBesideCollector == SyncInit /\ TrackInit /\ BufInit(TRUE) /\ ApartInit /\ GenInit /\ CacheInit /\ LifeInit /\ SweepInit /\ ClassifierInit /\ AccountInit /\ UploadInit /\ FolderInit /\ CallsInit /\ FlushInit
InitBesideFolder == SyncInit /\ TrackInit /\ BufInit(TRUE) /\ ApartInit /\ GenInit /\ CacheInit /\ LifeInit /\ SweepInit /\ ClassifierInit /\ AccountInit /\ UploadInit /\ CollectorInit /\ CallsInit /\ FlushInit
InitBesideCalls == SyncInit /\ TrackInit /\ BufInit(TRUE) /\ ApartInit /\ GenInit /\ CacheInit /\ LifeInit /\ SweepInit /\ ClassifierInit /\ AccountInit /\ UploadInit /\ CollectorInit /\ FolderInit /\ FlushInit
InitBesideFlush == SyncInit /\ TrackInit /\ BufInit(TRUE) /\ ApartInit /\ GenInit /\ CacheInit /\ LifeInit /\ SweepInit /\ ClassifierInit /\ AccountInit /\ UploadInit /\ CollectorInit /\ FolderInit /\ CallsInit
InitBesideCache == SyncInit /\ TrackInit /\ BufInit(TRUE) /\ ApartInit /\ GenInit /\ LifeInit /\ SweepInit /\ ClassifierInit /\ AccountInit /\ UploadInit /\ CollectorInit /\ FolderInit /\ CallsInit /\ FlushInit

(***************************************************************************)
(* Specifications.                                                         *)
(***************************************************************************)
\* The default configuration has enable_delta_filtering: True
Init == SyncInit /\ TrackInit /\ BufInit(TRUE) /\ RestInit

Next ==
  \/ \E S \in SUBSET Types : WriteBegin(S)
  \/ WriteRow
  \/ WriteFlush
  \/ WriteFlushFail
  \/ \E flushOk \in BOOLEAN, saveOk \in BOOLEAN : Close(flushOk, saveOk)
  \/ SyncAuthFail
  \/ SyncFolderFail
  \/ \E ok \in BOOLEAN : SyncStart(ok)
  \/ SyncUploadNoRows
  \/ \E fid \in 1..MaxFiles, ok \in BOOLEAN : SyncUploadAppend(fid, ok)
  \/ \E why \in CreateReasons, ok \in BOOLEAN : SyncUploadCreate(why, ok)
  \/ SyncRaise
  \/ MarkBegin
  \/ \E ok \in BOOLEAN : MarkEnd(ok)
  \/ SyncEnd
  \/ Crash

Spec == Init /\ [][Next]_vars

\* The same process with a thread that calls get_stats() (get_status of the logger).
NextStats ==
  \/ Next
  \/ \E t \in Types : GetStats(t)

SpecStats == Init /\ [][NextStats]_vars

\* The sync state tracker alone, called through its interface.
NextTracker ==
  \/ \E S \in SUBSET Types : TrackerWrite(S)
  \/ \E t \in Types, n \in 0..(MaxRows + 1), id \in 1..MaxFiles :
       TrackerMark(t, n, id)

SpecTracker == Init /\ [][NextTracker]_vars

\* The delta buffer with its producer and its consumers.
NextBuffer ==
  \/ \E m \in Snapshots : Add(m)
  \/ \E c \in Consumers : GetBatchCopy(c)
  \/ \E c \in Consumers : GetBatchClear(c)

InitBuffer == SyncInit /\ TrackInit /\ RestInit /\ \E delta \in BOOLEAN : BufInit(delta)

SpecBuffer == InitBuffer /\ [][NextBuffer]_vars

\* write_metrics on the csv files of a device directory, with I/O failures and restarts.
NextWriter ==
  \/ \E m \in MetricKeySets, failed \in CategorizedTypes \cup {NoFailure} :
       WriteMetrics(m, failed)
  \/ WriterRestart

SpecWriter == Init /\ [][NextWriter]_vars

\* DeviceDataManager.__init__ on a device directory whose sync_state.json has any
\* content.
InitLoad ==
  /\ SyncInit /\ TrackInit /\ BufInit(TRUE) /\ WriterInit /\ RetryInit /\ CycleInit /\ LoopInit
  /\ AdapterInit /\ MoreInit
  /\ stateFile \in StateFileContents
  /\ loaded = NotConstructed

SpecLoad == InitLoad /\ [][Construct]_vars

\* The remote requests of upload_file and of a sync() cycle, each with every outcome.
NextRetry ==
  \/ \E raises \in BOOLEAN : UploadAuthFail(raises)
  \/ UploadBegin
  \/ UploadAttemptOk
  \/ UploadAttemptHttpError
  \/ UploadSleepEnd
  \/ UploadAttemptError
  \/ \E n \in 0..MaxPending : CycleBegin(n)
  \/ \E ok \in BOOLEAN : CycleAuthenticate(ok)
  \/ \E out \in RequestOutcomes : CycleVerifyFolder(out)
  \/ \E out \in RequestOutcomes : CycleFindFolder(out)
  \/ CycleNextTuple
  \/ \E out \in RequestOutcomes, found \in BOOLEAN : CycleFindFile(out, found)
  \/ \E out \in RequestOutcomes : CycleDownload(out)
  \/ \E r \in Requests, out \in RequestOutcomes : CycleWrite(r, out)

SpecRetry == Init /\ [][NextRetry]_vars

\* A background sync loop running cycles of sync() until its flag is cleared. The
\* thread keeps being scheduled: its steps and those of the cycle are weakly fair; the
\* call that clears the flag is not.
LoopSteps ==
  \/ \E n \in 0..MaxPending : LoopCallSync(n)
  \/ LoopSyncOver
  \/ LoopTick
  \/ LoopWaitOver
  \/ LoopSeesStop
  \/ \E ok \in BOOLEAN : CycleAuthenticate(ok)
  \/ \E out \in RequestOutcomes : CycleVerifyFolder(out)
  \/ \E out \in RequestOutcomes : CycleFindFolder(out)
  \/ CycleNextTuple
  \/ \E out \in RequestOutcomes, found \in BOOLEAN : CycleFindFile(out, found)
  \/ \E out \in RequestOutcomes : CycleDownload(out)
  \/ \E r \in Requests, out \in RequestOutcomes : CycleWrite(r, out)

NextLoop ==
  \/ LoopSteps
  \/ LoopStop

InitLoop ==
  /\ SyncInit /\ TrackInit /\ BufInit(TRUE) /\ WriterInit /\ LoadInit
  /\ RetryInit /\ CycleInit /\ AdapterInit /\ MoreInit
  /\ loopKind \in LoopKinds
  /\ running = TRUE
  /\ loopPc = "initial"
  /\ ticks = 0
  /\ waited = 0
  /\ lastFailed = FALSE

SpecLoop == InitLoop /\ [][NextLoop]_vars /\ WF_vars(LoopSteps)

\* An adapter of any class, called through its interface in any order
NextAdapter ==
  \/ \E outcome \in {"ok", "absent", "exception"}, now \in Times, counters \in BOOLEAN :
       Initialize(outcome, now, counters)
  \/ RecordError
  \/ ResetErrorCount
  \/ \E library \in BOOLEAN, outcome \in {"ok", "exception"} : Cleanup(library, outcome)
  \/ \E now \in Times, outcome \in CollectOutcomes, io, some \in BOOLEAN :
       CollectNetwork(now, outcome, io, some)
  \/ \E now \in Times, outcome \in CollectOutcomes, io, again, per_disk, some \in BOOLEAN :
       CollectDisk(now, outcome, io, again, per_disk, some)
  \/ \E outcome \in CollectOutcomes, some \in BOOLEAN : CollectPlain(outcome, some)

InitAdapter ==
  /\ SyncInit /\ TrackInit /\ BufInit(TRUE)
  /\ WriterInit /\ LoadInit /\ RetryInit /\ CycleInit /\ LoopInit /\ MoreInit
  /\ adapter \in AdapterClasses
  /\ initialized = FALSE
  /\ error_count = 0
  /\ prev_io_counters = FALSE
  /\ prev_timestamp = NoTimestamp
  /\ prev_total_io = FALSE
  /\ everInitialized = FALSE
  /\ lastCall = [op |-> "__init__", after |-> "none", returned |-> "none",
                 raised |-> FALSE, was_initialized |-> FALSE,
                 never_initialized |-> TRUE, errors_before |-> 0, rates |-> NoRates]

SpecAdapter == InitAdapter /\ [][NextAdapter]_vars

\* generate_hardware_id called with any inputs under one config
NextGenerate ==
  \E cpu_model \in CpuModels, gpu_names \in GpuNameLists, board \in {NoBoard, BoardComponent} :
    GenerateHardwareId(cpu_model, gpu_names, board)

InitGenerate ==
  /\ InitBesideGen
  /\ hid_config \in HardwareIdConfigs
  /\ genPrev = NoCall
  /\ genLast = NoCall

SpecGenerate == InitGenerate /\ [][NextGenerate]_vars

\* get_cached_hardware_id called once by each process started on one machine
NextCached ==
  \E readable, writable \in BOOLEAN, nvml, wmi \in {"ok", "exception"} :
    GetCachedHardwareId(readable, nvml, wmi, writable)

InitCached ==
  /\ InitBesideCache
  /\ machine \in Machines
  /\ cache_file = NoCacheFile
  /\ idsReturned = {}
  /\ boots = 0

SpecCached == InitCached /\ [][NextCached]_vars

\* A logger with any interval, with or without cloud sync, started and stopped by one
\* caller while its threads run
NextLife ==
  \/ \E info_ok \in BOOLEAN : Start(info_ok)
  \/ StopBegin
  \/ StopJoined
  \/ \E write_ok \in BOOLEAN : StopFlush(write_ok)
  \/ StopSync
  \/ \E stat_ok \in BOOLEAN : StopCompress(stat_ok)
  \/ StopCleanup
  \/ \E i \in ThreadIds : CollectorTest(i)
  \/ \E i \in ThreadIds, retains, write_ok \in BOOLEAN, elapsed \in 0..MaxElapsed :
       CollectorPass(i, retains, write_ok, elapsed)
  \/ \E i \in ThreadIds : CollectorWake(i)
  \/ \E i \in ThreadIds : UploaderWake(i)
  \/ \E i \in ThreadIds : UploaderTest(i)
  \/ \E i \in ThreadIds : UploaderSynced(i)
  \/ \E i \in ThreadIds : UploaderWait(i)
  \/ \E long \in BOOLEAN : Tick(long)

InitLife ==
  /\ InitBesideLife
  /\ interval \in {1, MaxInterval}
  /\ cloud_sync \in BOOLEAN
  /\ cloud_sync => interval = 1
  /\ logger_running = FALSE
  /\ collectors = [i \in ThreadIds |-> Unborn]
  /\ uploaders = [i \in ThreadIds |-> Unborn]
  /\ collect_thread = NoThread
  /\ starts = 0
  /\ stopPc = "idle"
  /\ joinLeft = 0
  /\ buffered_count = 0
  /\ retained_count = 0
  /\ written_count = 0
  /\ lastStop = NoStop

SpecLife == InitLife /\ [][NextLife]_vars

\* The rolling writer with its aging sweep
NextSweep ==
  \/ \E file_path \in LogFiles, open_ok \in BOOLEAN : WriteBatch(file_path, open_ok)
  \/ CloseWriter
  \/ \E csv_file \in LogFiles : Age(csv_file)
  \/ RestartWriter
  \/ SweepBegin
  \/ \E csv_file \in LogFiles, open_ok \in BOOLEAN : SweepVisit(csv_file, open_ok)
  \/ \E ok \in BOOLEAN : SweepCopy(ok)
  \/ \E ok \in BOOLEAN : SweepUnlink(ok)
  \/ SweepEnd
InitSweep ==
  InitBesideSweep /\ \E dir \in LogDirs, flag \in BOOLEAN : NewWriter(dir, flag)
SpecSweep == InitSweep /\ [][NextSweep]_vars

\* The workload classifier fed with snapshots
NextClassifier ==
  \/ \E metrics \in MetricsInputs : Update(metrics)
  \/ ResetClassifier
InitClassifier == InitBesideClassifier /\ ClassifierInit
SpecClassifier == InitClassifier /\ [][NextClassifier]_vars

\* The data manager writing, closing and restarting, no call failing
NextAccount ==
  \/ \E S \in SUBSET Types, with_break \in SUBSET Types : WriteRecords(S, with_break)
  \/ CloseManager
  \/ RestartManager
InitAccount == InitBesideAccount /\ AccountInit
SpecAccount == InitAccount /\ [][NextAccount]_vars

\* One hardware type written locally and appended to its remote file
NextUpload ==
  \/ \E record_columns \in RecordShapes : LocalWrite(record_columns)
  \/ LocalClose
  \/ \E found \in 0..MaxFiles, download_ok \in BOOLEAN, request_ok \in BOOLEAN :
       SyncStep(found, download_ok, request_ok)
InitUpload == InitBesideUpload /\ UploadInit
SpecUpload == InitUpload /\ [][NextUpload]_vars

\* The collection cycles of one logger, before and after stop()
NextCollector ==
  \/ \E outcome \in [AdapterSlots -> {"ok", "exception"}], partial \in [AdapterSlots -> BOOLEAN] :
       CollectMetrics(outcome, partial)
  \/ \E s \in AdapterSlots : ResetAdapter(s)
  \/ CleanupAdapters
InitCollector == InitBesideCollector /\ CollectorInit
SpecCollector == InitCollector /\ [][NextCollector]_vars

\* Sync cycles of one device, with restarts and remote deletions of the folder
NextFolder ==
  \/ \E verify \in {"ok", "404", "error"}, found \in 0..MaxFolders,
        list_ok \in BOOLEAN, create_ok \in BOOLEAN, save_ok \in BOOLEAN :
       EnsureDeviceFolder(verify, found, list_ok, create_ok, save_ok)
  \/ \E id \in 1..MaxFolders : DeleteRemotely(id)
  \/ \E readable \in BOOLEAN : FolderRestart(readable)
InitFolder == InitBesideFolder /\ FolderInit
SpecFolder == InitFolder /\ [][NextFolder]_vars

\* Two callers of sync() beside the writer of the local files
NextCalls ==
  \/ \E t \in Types, with_break \in BOOLEAN : CallWriteRow(t, with_break)
  \/ CallWriteFlush
  \/ WritesStop
  \/ \E c \in Callers, auth_ok \in BOOLEAN : CallSync(c, auth_ok)
  \/ \E c \in Callers, folder_ok \in BOOLEAN : EnterSync(c, folder_ok)
  \/ \E c \in Callers, found \in 0..MaxFiles, download_ok \in BOOLEAN, request_ok \in BOOLEAN :
       UploadRows(c, found, download_ok, request_ok)
  \/ \E c \in Callers : MarkUploaded(c)
  \/ \E c \in Callers : LeaveSync(c)
  \/ CallsRestart
InitCalls == InitBesideCalls /\ CallsInit
SpecCalls == InitCalls /\ [][NextCalls]_vars

\* The same with the scheduling the threads have: a write that began ends; the upload
\* loop calls sync() again after every interval, and authentication, the lock, the
\* folder resolution and the requests succeed again and again rather than fail for ever
CallsFairness ==
  /\ WF_vars(CallWriteFlush)
  /\ SF_vars(CallSync("loop", TRUE))
  /\ \A c \in Callers :
       /\ SF_vars(EnterSync(c, TRUE))
       /\ \A t \in Types :
            SF_vars(\E found \in 0..MaxFiles, download_ok \in BOOLEAN :
                      /\ ca_pending[c] # <<>> /\ Head(ca_pending[c]).hw_type = t
                      /\ UploadRows(c, found, download_ok, TRUE))
       /\ SF_vars(MarkUploaded(c))
       /\ WF_vars(LeaveSync(c))
SpecCallsFair == InitCalls /\ [][NextCalls]_vars /\ CallsFairness

\* The logger started and stopped, its collection loops and the final flush
NextFlush ==
  \/ StartLogger
  \/ \E k \in Loops : LoopTest(k)
  \/ \E k \in Loops, retains \in BOOLEAN : LoopAdd(k, retains)
  \/ \E k \in Loops : LoopIsFull(k)
  \/ \E k \in Loops : LoopGetBatch(k)
  \/ \E k \in Loops : LoopWrite(k)
  \/ \E k \in Loops : LoopSleep(k)
  \/ FinalStop
  \/ \E timed_out \in BOOLEAN : FinalJoin(timed_out)
  \/ FinalGetBatch
  \/ FinalWrite
InitFlush == InitBesideFlush /\ FlushInit
SpecFlush == InitFlush /\ [][NextFlush]_vars

(***************************************************************************)
(* Claims about the sync protocol.                                         *)
(***************************************************************************)
\* The in-memory cursor of a type
MemCursor(t) == Cursor(files[t].cloud_file_id, files[t].last_row_uploaded)
\* The tuples of a pending list that are for type t
TuplesOf(list, t) == {list[i] : i \in {j \in 1..Len(list) : list[j].hw_type = t}}

\* C1: when a crash leaves rows remote that the persisted cursor does not cover
\* (the remote write succeeded, mark_uploaded did not persist), then after the restart
\* the cursor of that type is the old persisted one, the type is pending from that
\* cursor, and the next remote write of the type starts there and sends the same rows
\* again, so each of them is remote at least twice.
C1_AtLeastOnceRedelivery ==
  \A t \in Types :
    /\ redo[t].status = "waiting" =>
         /\ files[t].last_row_uploaded = redo[t].start
         /\ IsPending(files, t)
         /\ \A p \in TuplesOf(pending, t) : p.start_row = redo[t].start
         /\ TuplesOf(PendingUploads(files), t) =
              {[hw_type |-> t, start_row |-> redo[t].start, end_row |-> files[t].total_rows]}
    /\ redo[t].status = "redone" =>
         /\ redo[t].upStart = redo[t].start
         /\ redo[t].rows \subseteq redo[t].upRows
         /\ \A i \in redo[t].rows : RemoteCount(t, i) >= 2

\* C1 witness: after a crash that left a remote write unrecorded, the rows were sent again.
C1_Witness ==
  \E t \in Types : redo[t].status = "redone" /\ redo[t].rows # {}

\* C2: every local row below the cursor (in memory or persisted) is in a remote
\* file of its type.
C2_NoDataLoss ==
  \A t \in Types :
    \A i \in 0..(disk[t] - 1) :
      (i < files[t].last_row_uploaded \/ i < persisted.files[t].last_row_uploaded)
        => i \in RemoteRows(t)

\* C3: in a run without crash, remote failure or failed save, the remote write of a
\* sync cycle sends exactly the rows [start_row, end_row) of the pending tuple, and no
\* row is remote more than once.
C3_ExactRangeOnce ==
  ~faulted =>
    /\ syncPc \in {"mark", "markid"} =>
         sent = Head(pending).start_row .. (Head(pending).end_row - 1)
    /\ \A t \in Types : \A i \in 0..MaxRows : RemoteCount(t, i) <= 1

\* C5: 0 <= last_row_uploaded <= total_rows for every type, in every state.
C5_CursorWithinRows ==
  \A t \in Types :
    /\ 0 <= files[t].last_row_uploaded
    /\ files[t].last_row_uploaded <= files[t].total_rows

\* C7: no get_stats() reads a cursor that is neither the one before nor the one
\* after a mark_uploaded running at the same time.
C7_NoTornCursorRead == statsObs.cursor \in statsObs.valid
\* A step of mark_uploaded for the type whose remote create or update succeeded
InMarkOf(t) == syncPc \in {"mark", "markid"} /\ Head(pending).hw_type = t

C4_MarkThenPending ==
  \A t \in Types :
    marked[t].set =>
      LET N == marked[t].n
          tuples == TuplesOf(PendingUploads(files), t)
      IN /\ files[t].total_rows = N => tuples = {}
         /\ files[t].total_rows > N =>
              tuples = {[hw_type |-> t, start_row |-> N, end_row |-> files[t].total_rows]}

\* C4 witness: one type marked at its row count, the other marked below it.
C4_Witness ==
  \E t, u \in Types :
    /\ marked[t].set /\ marked[t].n > 0 /\ files[t].total_rows = marked[t].n
    /\ marked[u].set /\ files[u].total_rows > marked[u].n

(***************************************************************************)
(* Claims about the delta buffer.                                          *)
(***************************************************************************)
\* Every numeric field of s2 is within the threshold of the same field of s1
WithinThreshold(s1, s2) ==
  \A k \in Keys :
    IsNumeric(s2[k]) =>
      /\ IsNumeric(s1[k])
      /\ IF s1[k].v = 0
           THEN s2[k].v = 0
           ELSE Abs(s2[k].v - s1[k].v) * 100 < DeltaThreshold * Abs(s1[k].v)

\* Some numeric field of s2 changed by at least the threshold relative to s1's value
ChangedByThreshold(s1, s2) ==
  \E k \in Keys :
    /\ IsNumeric(s2[k])
    /\ IsNumeric(s1[k])
    /\ IF s1[k].v = 0
         THEN s2[k].v # 0
         ELSE Abs(s2[k].v - s1[k].v) * 100 >= DeltaThreshold * Abs(s1[k].v)

\* The last add() followed a retained snapshot S1 (lastAdd.prev)
AfterRetained == enable_delta /\ lastAdd.id > 0 /\ lastAdd.prev.set
\* The get_batch() that completed last was the next call after the last add()
GetAfterLastAdd == lastOp = "get" /\ prevOp = "add"

\* C8: with delta filtering enabled, add(S2) after a retained S1 with every numeric
\* field of S2 within the threshold of S1's returns false and leaves the buffer as it
\* was, and the next get_batch() returns exactly [S1] when S1 was alone in the buffer.
C8_WithinThresholdRejected ==
  (AfterRetained /\ WithinThreshold(lastAdd.prev.m, lastAdd.m)) =>
    /\ ~lastAdd.result
    /\ lastOp = "add" => buffer = lastAdd.before
    /\ (GetAfterLastAdd /\ lastAdd.before = <<Entry(lastAdd.prev.id, lastAdd.prev.m)>>)
         => returned = <<Entry(lastAdd.prev.id, lastAdd.prev.m)>>

C10_EachRetainedDeliveredOnce ==
  /\ delivered \o Ids(buffer) = retained
  /\ (lastOp = "get" /\ prevOp = "get") => returned = <<>>

\* C10 witness: two get_batch() calls in a row after snapshots were delivered, while
\* the other consumer is inside get_batch().
C10_Witness ==
  /\ lastOp = "get"
  /\ prevOp = "get"
  /\ Len(delivered) >= 2
  /\ \E c \in Consumers : getPc[c] = "copied"
(***************************************************************************)
(* Claims about the csv files of the data manager.                         *)
(***************************************************************************)
\* The last write_metrics call met no I/O failure
WroteWithoutFailure == writes > 0 /\ lastWrite.failed = NoFailure
\* Type t got exactly one row in the last write_metrics call / got none
GotOneRow(t) == Len(csv_rows[t]) = lastWrite.before[t] + 1
GotNoRow(t) == Len(csv_rows[t]) = lastWrite.before[t]

\* C11: write_metrics without I/O failure never raises, and afterwards the header of
\* each file contains every column of every record written to it and every row has
\* one cell per header column (the file parses under its header).
C11_HeaderCoversWrittenColumns ==
  /\ WroteWithoutFailure => ~lastWrite.raised
  /\ \A t \in CategorizedTypes :
       \A i \in 1..Len(csv_rows[t]) :
         /\ csv_rows[t][i].record \subseteq Range(csv_header[t])
         /\ csv_rows[t][i].cells = Len(csv_header[t])

\* C12: when the append of one hardware type fails with an I/O error, write_metrics
\* returns normally, every other type matched by the snapshot got its row, and
\* rows_written holds exactly the types whose row was written.
C12_FailureOfOneTypeIsolated ==
  (writes > 0 /\ lastWrite.failed # NoFailure) =>
    /\ ~lastWrite.raised
    /\ \A t \in Range(TypesWithRecord(lastWrite.m)) \ {lastWrite.failed} : GotOneRow(t)
    /\ lastWrite.rows_written = Range(TypesWithRecord(lastWrite.m)) \ {lastWrite.failed}

\* C13: a snapshot all of whose keys match the network rule set, written without I/O
\* failure, appends one row to the network file and no row to any other file.
C13_NetworkKeysOnlyInNetworkFile ==
  (/\ WroteWithoutFailure
   /\ lastWrite.m # {}
   /\ \A k \in lastWrite.m : InNetwork(k)) =>
    /\ GotOneRow("network")
    /\ \A t \in CategorizedTypes \ {"network"} : GotNoRow(t)

\* The content is a JSON dict of the shape mark_uploaded writes, keys possibly missing
ExpectedShape(content) ==
  /\ content.kind = "json"
  /\ IsDict(content.value)
  /\ content.value.files # Missing =>
       /\ IsDict(content.value.files)
       /\ \A t \in Types :
            LET e == content.value.files.entries[t]
            IN e # Missing =>
                 /\ IsDict(e)
                 /\ e.cloud_file_id.kind \in {"missing", "null", "string"}
                 /\ e.last_row_uploaded.kind \in {"missing", "number"}

\* C14: whatever sync_state.json holds that is not a sync state (absent, unreadable,
\* not JSON, JSON of an unexpected shape), the constructor does not raise and starts
\* with no folder id and, for every type, last_row_uploaded 0 and no remote file id.
C14_BadStateFileStartsEmpty ==
  (loaded.done /\ ~ExpectedShape(stateFile)) =>
    /\ ~loaded.raised
    /\ loaded.device_folder_id = JsonNull
    /\ \A t \in Types :
         /\ loaded.files[t].last_row_uploaded = JsonNumber(0)
         /\ loaded.files[t].cloud_file_id = JsonNull

(***************************************************************************)
(* Claims about failing remote requests.                                   *)
(***************************************************************************)
\* At most retry_attempts create requests per upload_file call, with one sleep between
\* two attempts
AttemptsBounded ==
  /\ upTried <= retry_attempts
  /\ upPc = "attempt" => upSleeps = upTried
  /\ upPc = "sleep" => upSleeps = upTried
  /\ upPc = "idle" => upSleeps = IF upTried = 0 THEN 0 ELSE upTried - 1
  /\ \A r \in Requests : cyTried[r] <= 1

C16_FailedCycleNeverEndsLoop ==
  /\ [](loopPc = "ended" => ~running)
  /\ []((loopPc \in {"call", "in_sync"} /\ lastFailed) => waited = IntervalTicks)
  /\ (loopPc = "wait" /\ lastFailed) ~> (loopPc = "in_sync" \/ ~running)

\* C16 witness: a cycle that raised was followed by the wait and by another cycle,
\* which failed too, the flag still set.
C16_Witness ==
  /\ running
  /\ loopPc = "in_sync"
  /\ lastFailed
  /\ waited = IntervalTicks
  /\ cyOutcome = "raised"

(***************************************************************************)
(* Claims about the hardware adapters.                                     *)
(***************************************************************************)
\* C17: after any sequence of initialize, record_error, reset_error_count and cleanup
\* calls (and of the collects, which record and reset errors themselves),
\* is_available() is true exactly when the adapter is initialized and fewer than 10
\* errors were recorded since the last reset: the 10th error makes it unavailable, and
\* after reset_error_count it is available whenever it is initialized.
C17_AvailableIffInitializedBelowTen ==
  /\ is_available(initialized, error_count) <=> (initialized /\ error_count <= 9)
  /\ (lastCall.op = "record_error" /\ lastCall.errors_before >= 9) =>
       ~is_available(initialized, error_count)
  /\ (lastCall.op = "record_error" /\ lastCall.errors_before < 9 /\ initialized) =>
       is_available(initialized, error_count)
  /\ lastCall.op = "reset_error_count" =>
       (is_available(initialized, error_count) <=> initialized)

\* C17 witness: an initialized adapter that had 10 errors or more is available again
\* after reset_error_count.
C17_Witness ==
  /\ lastCall.op = "reset_error_count"
  /\ lastCall.errors_before >= max_errors
  /\ initialized
  /\ is_available(initialized, error_count)

\* C18: no cleanup() call raises, whatever the library call inside it does, and after
\* each cleanup() call, the first or a repeated one, is_initialized is false.
C18_CleanupNeverRaisesLeavesUninitialized ==
  lastCall.op = "cleanup" => (~lastCall.raised /\ ~initialized)

\* C18 witness: a second cleanup() in a row of an NVIDIA adapter that had been
\* initialized.
C18_Witness ==
  /\ adapter = "NvidiaGPUAdapter"
  /\ everInitialized
  /\ lastCall.op = "cleanup"
  /\ lastCall.after = "cleanup"
  /\ ~initialized

\* C19: a collect of an adapter that no initialize() call ever made initialized
\* returns an empty result and is a no-op (the error count is what it was).
C19_UninitializedCollectIsEmptyNoOp ==
  (lastCall.op = "collect_metrics" /\ lastCall.never_initialized) =>
    /\ lastCall.returned = "empty"
    /\ error_count = lastCall.errors_before

\* C20: a collect of the disk or network adapter divides by the elapsed time, and
\* emits rate fields, only when the elapsed time it measured (the current time minus
\* the stored time of the previous collect) is strictly positive; with a zero or
\* negative elapsed time the rate fields are left out and nothing is divided.
C20_RatesOnlyOverPositiveElapsed ==
  lastCall.op = "collect_metrics" =>
    /\ lastCall.rates.divided => lastCall.rates.time_delta > 0
    /\ lastCall.rates.emitted => (lastCall.rates.divided /\ lastCall.rates.time_delta > 0)
    /\ (lastCall.rates.compared /\ lastCall.rates.time_delta <= 0) =>
         ~lastCall.rates.emitted

\* C20 witness: a collect right after a collect, with no time elapsed between the
\* two, returned its metrics without the rate fields.
C20_Witness ==
  /\ adapter \in RateAdapters
  /\ lastCall.op = "collect_metrics"
  /\ lastCall.after = "collect_metrics"
  /\ lastCall.rates.compared
  /\ lastCall.rates.time_delta = 0
  /\ ~lastCall.rates.emitted
  /\ lastCall.returned = "metrics"

(***************************************************************************)
(* Claims about the device identifier.                                     *)
(***************************************************************************)
\* C21: the device identifier is stable: on one machine, get_cached_hardware_id
\* returns the same value in every process, whether it reads the value from the
\* cache file or computes it again.
C21_IdentifierStable == Cardinality(idsReturned) <= 1

\* C22: under a config that includes the CPU and the GPU component, two calls of
\* generate_hardware_id whose inputs differ in cpu_model or in the set of GPU names
\* (the board being the same) never hash the same combined string.
C22_DifferentInputsDifferentCombined ==
  ( /\ genPrev.called /\ genLast.called
    /\ hid_config.include_cpu /\ hid_config.include_gpu
    /\ genPrev.board = genLast.board
    /\ \/ genPrev.cpu_model # genLast.cpu_model
       \/ Range(genPrev.gpu_names) # Range(genLast.gpu_names) )
  => genPrev.id.of # genLast.id.of

(***************************************************************************)
(* Claims about the logger's threads.                                      *)
(***************************************************************************)
\* C23: a stop() call on a running logger that has ended has made, in this order, the
\* final flush, the final sync attempt (when cloud sync is on) and the adapter cleanup,
\* and it left the buffer empty and no retained snapshot unwritten; a stop() call on a
\* logger that is not running returns with nothing done.
C23_StopFlushesSyncsCleans ==
  /\ (lastStop.was_running /\ lastStop.outcome \in {"returned", "raised"}) =>
       /\ lastStop.outcome = "returned"
       /\ lastStop.steps = IF cloud_sync THEN <<"flush", "sync", "compress", "cleanup">>
                                         ELSE <<"flush", "compress", "cleanup">>
       /\ lastStop.left_in_buffer = 0
       /\ lastStop.unwritten = 0
  /\ (lastStop.called /\ ~lastStop.was_running) =>
       (lastStop.outcome = "returned" /\ lastStop.steps = <<>>)

\* C24: once the flag is cleared, a loop thread that sleeps is in a sleep of one second
\* at most, so that it sees the flag within one second plus the operation in progress.
C24_ClearedFlagSeenWithinOneSecond ==
  ~logger_running =>
    \A i \in ThreadIds :
      /\ collectors[i].pc = "sleep" => collectors[i].left <= 1
      /\ uploaders[i].pc \in {"grace", "nap"} => uploaders[i].left <= 1

\* C25: at most one collection loop is alive at any time, and no two threads are
\* inside a collection pass at once.
C25_AtMostOneCollectionLoop ==
  /\ Cardinality({i \in ThreadIds : Alive(collectors[i])}) <= 1
  /\ Cardinality({i \in ThreadIds : collectors[i].pc = "collect"}) <= 1

C27_CategoryOnlyOnFilledConfidentWindow ==
  lastUpdate.called =>
    LET best == BestCategory(calculate_averages(history)).score
        confident == 5 * best[1] >=
                       3 * best[2] * 10 * SamplesOf(calculate_averages(history)) * RangeLcm
    IN IF lastUpdate.returned # NoCategory
         THEN /\ Len(history) >= MinSamples
              /\ confident
              /\ current_category = lastUpdate.returned
         ELSE /\ Len(history) < MinSamples \/ ~confident
              /\ current_category = lastUpdate.before
\* An update on a filled window returned nothing and left the category detected before
C27_Witness ==
  /\ lastUpdate.called
  /\ lastUpdate.returned = NoCategory
  /\ Len(history) >= MinSamples
  /\ current_category # NoCategory
  /\ current_category = lastUpdate.before

(***************************************************************************)
(* C28: a snapshot is compared with the last retained snapshot: a rejected *)
(* snapshot leaves the reference values as they were, and a snapshot with  *)
(* a numeric field that differs from its value in the last retained        *)
(* snapshot by at least the threshold is retained, however little it       *)
(* differs from the snapshot before it.                                    *)
(***************************************************************************)
C28_ComparedWithLastRetained ==
  (enable_delta /\ lastAdd.id > 0) =>
    /\ ~lastAdd.result => last_values = lastAdd.reference
    /\ lastAdd.prev.set =>
         /\ \A k \in Keys : IsNumeric(lastAdd.prev.m[k]) =>
                               lastAdd.reference[k] = lastAdd.prev.m[k]
         /\ ChangedByThreshold(lastAdd.prev.m, lastAdd.m) => lastAdd.result
\* A drift in small steps: the snapshot before the last was rejected, the last is
\* within the threshold of it and is retained for its distance to the last retained
C28_Witness ==
  /\ enable_delta /\ lastAdd.prev.set /\ lastAdd.id > lastAdd.prev.id + 1
  /\ ~lastAdd.seen_result
  /\ WithinThreshold(lastAdd.seen, lastAdd.m)
  /\ ChangedByThreshold(lastAdd.prev.m, lastAdd.m)
  /\ lastAdd.result
  /\ last_values = UpdateLastValues(lastAdd.reference, lastAdd.m)

\* What the spec lets a field count for: a change of at least the threshold relative
\* to a non-zero last retained value, or a non-zero value where the last retained
\* value was zero or absent
CausesRetention(last_val, value) ==
  IF IsNumeric(last_val) /\ last_val.v # 0
    THEN Abs(value.v - last_val.v) * 100 >= DeltaThreshold * Abs(last_val.v)
    ELSE value.v # 0

(***************************************************************************)
(* C29: a snapshot added after a retained one is retained if and only if   *)
(* one of its numeric fields changed by at least the threshold relative to *)
(* a non-zero last retained value, or is non-zero where the last retained  *)
(* value was zero or absent.                                               *)
(***************************************************************************)
C29_RetainedIffFieldChanged ==
  AfterRetained =>
    (lastAdd.result <=>
       \E k \in Keys : /\ IsNumeric(lastAdd.m[k])
                       /\ CausesRetention(lastAdd.reference[k], lastAdd.m[k]))

(***************************************************************************)
(* C30: after any sequence of writes, closes and restarts without I/O      *)
(* failure, total_rows of every hardware type is the number of data rows   *)
(* physically present in its local file; a write adds one per appended row *)
(* and nothing decreases it within a process lifetime.                     *)
(***************************************************************************)
C30_TotalRowsArePhysicalRows ==
  \A t \in Types :
    /\ row_totals[t] = PhysicalRows(local_files[t])
    /\ lastAppend[t].after \in {lastAppend[t].before, lastAppend[t].before + 1}
    /\ row_totals[t] = lastAppend[t].after

(***************************************************************************)
(* C31: when the remote file exists and its download succeeds, the content *)
(* re-uploaded is the downloaded content followed by exactly the local     *)
(* rows [start_row, end_row), without a second header line.                *)
(***************************************************************************)
C31_AppendKeepsRemoteAddsLocalRows ==
  lastSync.kind = "append" =>
    cloud_files[lastSync.file] = lastSync.downloaded \o lastSync.local

(***************************************************************************)
(* C32: when the remote file is found but its download fails, the file     *)
(* {hardware_type}.csv is created with the header and only the rows        *)
(* [start_row, end_row), replacing the content the remote file had, and    *)
(* the cursor advances to end_row.                                         *)
(***************************************************************************)
C32_FailedDownloadReplacesRemoteFile ==
  (lastSync.kind = "create" /\ lastSync.why = "download_failed") =>
    /\ up_cursor = lastSync.end_row
    /\ \A f \in 1..Len(cloud_files) :
         /\ cloud_files[f][1] = CsvHeader(up_header)
         /\ \A i \in 2..Len(cloud_files[f]) :
              \E j \in 1..Len(lastSync.local) :
                cloud_files[f][i].cells = RewrittenCells(up_header, lastSync.local[j].cells)
         /\ Len(cloud_files[f]) = 1 + Len(lastSync.local)

(***************************************************************************)
(* C39: after any sequence of writes with changing column sets, close()    *)
(* calls and reopenings of a hardware-type file, every data row has        *)
(* exactly as many fields as the header row of the file.                   *)
(***************************************************************************)
C39_EveryRowHasHeaderWidth ==
  \A i \in 1..Len(up_rows) : Len(up_rows[i]) = Len(up_header)

(***************************************************************************)
(* C34: the collection cycle never calls collect on an adapter that is     *)
(* degraded or not initialized; such an adapter contributes no key to the  *)
(* snapshot, while get_metric_names still returns its last known metric    *)
(* names.                                                                  *)
(***************************************************************************)
C34_UnavailableSkippedNamesRetained ==
  /\ lastCycle.called \cap lastCycle.unavailable = {}
  /\ contributed \cap lastCycle.unavailable = {}
  /\ \A s \in AdapterSlots :
       ~is_available(adapters[s].initialized, adapters[s].error_count) =>
         (adapters[s].returned => get_metric_names(adapters[s]))

C38_ConcurrentSyncsUploadDisjointRanges ==
  /\ Cardinality({c \in Callers : ca_pc[c] \in {"upload", "mark"}}) <= 1
  /\ \A u, v \in ca_uploads :
       (u # v /\ u.hw_type = v.hw_type) =>
         (u.end_row <= v.start_row \/ v.end_row <= u.start_row)

\* Both callers have uploaded rows of one type, the second of them in a call made
\* while the first held the lock
C38_Witness ==
  \E u, v \in ca_uploads :
    /\ u.caller # v.caller
    /\ u.hw_type = v.hw_type
    /\ ca_lock = v.caller
    /\ ca_cycle[v.caller].waited /\ ca_cycle[v.caller].changed

(***************************************************************************)
(* C36: sync() is idempotent when nothing is pending: a cycle that follows *)
(* a fully successful cycle with no local row written since that cycle     *)
(* read its pending list finds nothing pending, makes no remote create or  *)
(* update request and changes no remote file and no cursor.                *)
(***************************************************************************)
C36_CycleAfterFullCycleDoesNothing ==
  \A c \in Callers :
    ca_cycle[c].after_full =>
      /\ ca_cycle[c].clean
      /\ ~ca_cycle[c].requested
      /\ ~ca_cycle[c].changed

\* Such a cycle has gone through its loop, with rows uploaded by a cycle before it
C36_Witness ==
  \E c \in Callers :
    /\ ca_pc[c] = "upload" /\ ca_pending[c] = <<>>
    /\ ca_cycle[c].after_full
    /\ \E t \in Types : ca_files[t].last_row_uploaded > 0 /\ ca_remote[t] # <<>>

(***************************************************************************)
(* C35: once local writes have stopped, with sync cycles that keep running *)
(* and authentication and remote requests that succeed in the end, the     *)
(* pending list becomes empty: last_row_uploaded = total_rows for every    *)
(* hardware type.                                                          *)
(***************************************************************************)
C35_PendingDrainsAfterWritesStop ==
  ca_stopped ~> (PendingUploads(ca_files) = <<>>)

(***************************************************************************)
(* C37: the rows of a hardware-type file are in the order in which the     *)
(* buffer retained their snapshots, also when a flush of the collection    *)
(* loop and the final flush of stop() overlap.                             *)
(***************************************************************************)
C37_RowsInRetentionOrder ==
  \A i, j \in 1..Len(fl_file) : i < j => fl_file[i] < fl_file[j]

====
